---------------------------- MODULE Spec2Model ----------------------------
(***************************************************************************)
(* IdeaFactory: the AI provider fallback chain (services/ai-provider.ts)   *)
(* and the per-user conversation state machine of the Telegram bot         *)
(* (setupTelegramBot, src/api/src/handlers/auth.ts lines 165-948).         *)
(***************************************************************************)
EXTENDS Integers, Sequences, FiniteSets, Bags, TLC

VARIABLES
    call,        \* the chain call under test (SpecChain)
    userStates,  \* const userStates = new Map<number, UserState>()
    ideas,       \* table public.ideas, in insertion order
    categories,  \* table public.categories: the names each profile has learned
    handlers,    \* the handler invocations that are suspended at an await
    obs,         \* what the last step did (reply, calls issued), for the claims
    past         \* history of the drafts and prompts of the run (SpecDrafts)

vars == <<call, userStates, ideas, categories, handlers, obs, past>>

(***************************************************************************)
(* Bounds of the model.                                                    *)
(***************************************************************************)
MaxProviders == 3

(***************************************************************************)
(* Values that cross the provider boundary.                                *)
(***************************************************************************)
ProviderKinds == {"Groq", "OpenAI"}

CategoryFields == {"category", "confidence", "tags"}

InsightFields == {"themes", "connections", "observation"}

\* A text is the sequence of its characters.
\* A value a provider operation resolves to.  `has` lists the properties the
\* parsed JSON object really has; a CategoryResult needs all of CategoryFields.
NoValue == [kind |-> "none", text |-> <<>>, has |-> {}, category |-> "", confidence |-> 0, tags |-> <<>>]

TextValue(t) == [NoValue EXCEPT !.kind = "text", !.text = t]

ObjectValue(has, cat, conf, tags) == [kind |-> "object", text |-> <<>>, has |-> has, category |-> cat, confidence |-> conf, tags |-> tags]

\* {category:"Business", confidence:0.8, tags:["pricing","billing"]}: confidence in tenths.
ResultBusiness == ObjectValue(CategoryFields, "Business", 8, <<"pricing", "billing">>)

ResultNovel == ObjectValue(CategoryFields, "Gardening", 5, <<"plants">>)

\* Parsable JSON that is not a complete CategoryResult.
ResultNoTags == ObjectValue({"category", "confidence"}, "Business", 8, <<>>)

ResultEmptyObject == ObjectValue({}, "", 0, <<>>)

InsightFull == ObjectValue(InsightFields, "", 0, <<"theme1", "theme2", "theme3">>)

InsightPartial == ObjectValue({"themes"}, "", 0, <<"theme1">>)

NoError == [by |-> 0, msg |-> "null"]

AllFailedError == [by |-> 0, msg |-> "All providers failed"]

ProviderError(by, msg) == [by |-> by, msg |-> msg]

\* What the remote SDK call of a provider does: it rejects, or resolves to a
\* completion whose first choice has no content, or content that is or is not JSON.
SdkThrow == [kind |-> "throw", json |-> FALSE, value |-> NoValue]

SdkNoContent == [kind |-> "nocontent", json |-> FALSE, value |-> NoValue]

SdkGarbage == [kind |-> "content", json |-> FALSE, value |-> NoValue]

SdkJson(v) == [kind |-> "content", json |-> TRUE, value |-> v]

SdkText(t) == [kind |-> "text", json |-> FALSE, value |-> TextValue(t)]

CategorizeResponses == {SdkThrow, SdkNoContent, SdkGarbage, SdkJson(ResultBusiness), SdkJson(ResultNovel), SdkJson(ResultNoTags), SdkJson(ResultEmptyObject)}

InsightResponses == {SdkThrow, SdkNoContent, SdkGarbage, SdkJson(InsightFull), SdkJson(InsightPartial)}

TranscribeResponses == {SdkThrow, SdkText(<<"a">>), SdkText(<<" ", " ">>)}

ResponsesOf(op) == CASE op = "transcribe" -> TranscribeResponses [] op = "categorize" -> CategorizeResponses [] OTHER -> InsightResponses

Ok(v) == [ok |-> TRUE, value |-> v, error |-> NoError]

Fail(e) == [ok |-> FALSE, value |-> NoValue, error |-> e]

\* JSON.parse(content): throws a SyntaxError unless the content is JSON.
JSONParse(by, resp) == IF resp.json THEN Ok(resp.value) ELSE Fail(ProviderError(by, "SyntaxError"))

\* GroqProvider/OpenAIProvider.transcribe: return transcription.text.
ProviderTranscribe(by, kind, resp) == IF resp.kind = "throw" THEN Fail(ProviderError(by, "sdk")) ELSE Ok(resp.value)

\* GroqProvider/OpenAIProvider.categorize and generateInsights: the same three lines,
\*   const content = response.choices[0]?.message?.content;
\*   if (!content) throw new Error('No response from <kind>');
\*   return JSON.parse(content) as CategoryResult;
ProviderChat(by, kind, resp) ==
    CASE resp.kind = "throw" -> Fail(ProviderError(by, "sdk"))
      [] resp.kind = "nocontent" -> Fail(ProviderError(by, "No response from " \o kind))
      [] OTHER -> JSONParse(by, resp)

ProviderOp(op, by, kind, resp) == IF op = "transcribe" THEN ProviderTranscribe(by, kind, resp) ELSE ProviderChat(by, kind, resp)

(***************************************************************************)
(* AIServiceWithFallback.tryWithFallback.  A chain call is the loop's      *)
(* state: idx is the provider of the current iteration, inflight the       *)
(* providers whose promise is pending, invoked and hist the history of     *)
(* invocations and of their outcomes.                                      *)
(***************************************************************************)
IdleCall == [op |-> "none", providers |-> <<>>, idx |-> 0, inflight |-> {}, invoked |-> <<>>, hist |-> <<>>, lastError |-> NoError, status |-> "idle", result |-> NoValue, error |-> NoError]

\* for (const provider of this.providers) { try { return await operation(provider) ...
\* and, past the last provider, throw lastError || new Error('All providers failed').
ChainLoopRace(c) ==
    IF c.idx < Len(c.providers)
    THEN [c EXCEPT !.idx = Len(c.providers), !.inflight = @ \cup ((c.idx + 1)..Len(c.providers)),
                   !.invoked = @ \o [i \in 1..(Len(c.providers) - c.idx) |-> c.idx + i]]
    ELSE [c EXCEPT !.status = "thrown", !.error = IF c.lastError # NoError THEN c.lastError ELSE AllFailedError]

ChainLoop(c) ==
    IF c.idx < Len(c.providers)
    THEN [c EXCEPT !.idx = @ + 1, !.inflight = @ \cup {c.idx + 1}, !.invoked = Append(@, c.idx + 1)]
    ELSE [c EXCEPT !.status = "thrown", !.error = IF c.lastError # NoError THEN c.lastError ELSE AllFailedError]

ChainStart(op, providers) == ChainLoop([IdleCall EXCEPT !.op = op, !.providers = providers, !.status = "running"])

\* catch (error) { lastError = error as Error; ... }
ChainCatchFirst(c, e) == [c EXCEPT !.lastError = IF @ = NoError THEN e ELSE @]

ChainCatch(c, e) == [c EXCEPT !.lastError = e]

\* The pending promise of provider c.idx settles: return its value, or catch and go on.
ChainSettleNoReturn(c, outcome) ==
    LET d == [c EXCEPT !.inflight = @ \ {c.idx}, !.hist = Append(@, outcome)]
    IN  IF outcome.ok /\ c.idx = Len(c.providers)
        THEN [d EXCEPT !.status = "returned", !.result = outcome.value]
        ELSE ChainLoop(ChainCatch(d, outcome.error))

ChainSettle(c, outcome) ==
    LET d == [c EXCEPT !.inflight = @ \ {c.idx}, !.hist = Append(@, outcome)]
    IN  IF outcome.ok
        THEN [d EXCEPT !.status = "returned", !.result = outcome.value]
        ELSE ChainLoop(ChainCatch(d, outcome.error))

\* The whole call, the i-th provider answering resps[i]: the loop is driven until
\* it returns or throws.
RECURSIVE ChainRun(_, _)
ChainRun(c, resps) == IF c.status # "running" THEN c ELSE ChainRun(ChainSettle(c, ProviderOp(c.op, c.idx, c.providers[c.idx], resps[c.idx])), resps)

RECURSIVE SeqsOver(_, _)
SeqsOver(S, n) == IF n = 0 THEN {<<>>} ELSE LET R == SeqsOver(S, n - 1) IN R \cup {Append(s, x) : s \in {r \in R : Len(r) = n - 1}, x \in S}

ProviderLists == SeqsOver(ProviderKinds, MaxProviders)

(***************************************************************************)
(* The bot: setupTelegramBot.  Every handler runs from an await to the     *)
(* next one without interruption; a handler suspended at an await is a     *)
(* record of the bag `handlers`, and handlers of the same or of other      *)
(* users interleave at their awaits (webhookCallback dispatches each       *)
(* update without waiting for the previous one).  Consecutive awaits       *)
(* between which a handler touches neither the state table nor the         *)
(* database (the chat transport, the file download, the provider chain)    *)
(* are one step, taken when the handler next reads or writes either.  The  *)
(* calls that can fail are those of the persistence layer and of the       *)
(* providers; the chat transport's calls (reply, editMessageText,          *)
(* answerCallbackQuery, deleteMessage) resolve.                            *)
(***************************************************************************)
MaxInFlight == 2

MaxIdeas == 2

MAX_VOICE_DURATION_SECONDS == 120

Users == {"u1"}

\* ctx.message.text of the incoming updates: an unknown command, a question, and
\* an idea with surrounding blanks.
RawTexts == {<<"/", "x">>, <<"?", "a">>, <<" ", "a", " ">>}

\* The chain the bot is wired with: Groq first, OpenAI when its key is set.
BotProviders == <<"Groq", "OpenAI">>

\* What a provider's categorize / transcribe may answer while the bot runs.
BotCategorizeResponses == {SdkThrow, SdkJson(ResultNovel), SdkJson(ResultNoTags)}

RECURSIVE TrimStart(_)
TrimStart(s) == IF s # <<>> /\ Head(s) = " " THEN TrimStart(Tail(s)) ELSE s

RECURSIVE TrimEnd(_)
TrimEnd(s) == IF s # <<>> /\ s[Len(s)] = " " THEN TrimEnd(SubSeq(s, 1, Len(s) - 1)) ELSE s

\* String.prototype.trim
Trim(s) == TrimEnd(TrimStart(s))

\* String.prototype.startsWith, for a one-character prefix
StartsWith(s, ch) == s # <<>> /\ s[1] = ch

\* interface UserState: an absent optional field is a record with set = FALSE,
\* an absent optional boolean is FALSE (the code only tests truthiness).
NoEdit == [set |-> FALSE, ideaId |-> ""]

NoIdea == [set |-> FALSE, text |-> <<>>, inputType |-> ""]

EmptyStatePaused == [pendingEdit |-> NoEdit, pendingSearch |-> FALSE, paused |-> TRUE, confirmMode |-> FALSE, pendingIdea |-> NoIdea, browseOffset |-> 0]

EmptyState == [pendingEdit |-> NoEdit, pendingSearch |-> FALSE, paused |-> FALSE, confirmMode |-> FALSE, pendingIdea |-> NoIdea, browseOffset |-> 0]

PendingEdit(id) == [set |-> TRUE, ideaId |-> id]

PendingIdea(text, inputType) == [set |-> TRUE, text |-> text, inputType |-> inputType]

\* getUserState(userId): the table after the lookup has created a missing entry
getUserState(u) == IF u \in DOMAIN userStates THEN userStates ELSE userStates @@ (u :> EmptyState)

\* The state a user's entry holds, {} when there is none yet.
StateOf(u) == IF u \in DOMAIN userStates THEN userStates[u] ELSE EmptyState

\* ideas.id (uuid_generate_v4()): the n-th row inserted.
IdOf(n) == "i" \o ToString(n)

\* A handler invocation: its update (user, origin, text, inputType), the await it
\* is suspended at (pc) and its locals.
NewHandler(u, origin) == [user |-> u, origin |-> origin, pc |-> "start", text |-> <<>>, inputType |-> "", ideaId |-> "", categorization |-> NoValue,
                          offset |-> 0, page |-> <<>>, rest |-> <<>>]

CanSuspend == BagCardinality(handlers) < MaxInFlight

Suspend(h) == handlers' = handlers (+) SetToBag({h})

Resume(h, h2) == handlers' = (handlers (-) SetToBag({h})) (+) SetToBag({h2})

Finish(h) == handlers' = handlers (-) SetToBag({h})

Suspended == BagToSet(handlers)

\* What a step did: the replies it sent to the user through the chat transport, the
\* provider and persistence calls it issued with the category names it passed (cats),
\* and the update and locals of the handler that ran.
ObsWith(step, u, replies, calls, h, cats) ==
    [step |-> step, user |-> u, replies |-> replies, calls |-> calls, origin |-> h.origin, text |-> h.text,
     inputType |-> h.inputType, categorization |-> h.categorization, cats |-> cats,
     duration |-> 0, shown |-> "", tried |-> <<>>, settled |-> 0,
     offset |-> 0, page |-> 0, total |-> 0, nav |-> {}, lines |-> <<>>, choices |-> <<>>, payload |-> <<>>,
     rows |-> <<>>]

Obs(step, u, replies, calls, h) == ObsWith(step, u, replies, calls, h, {})

\* The step of a voice message: the duration of the voice note and what the
\* reply shows of it.
ObsVoice(step, u, replies, calls, h, duration, shown) == [Obs(step, u, replies, calls, h) EXCEPT !.duration = duration, !.shown = shown]

\* The step that ends a transcription: the transcript, the providers the chain
\* has invoked and how many of them have settled.
ObsChain(step, u, replies, calls, h, c) == [Obs(step, u, replies, calls, [h EXCEPT !.text = c.result.text]) EXCEPT !.tried = c.invoked, !.settled = Len(c.hist)]

\* The history variable: how many drafts the run has stored ("none", "one",
\* "many"), the draft the last Discard cleared, and the confirmation prompts
\* whose Save/Edit/Discard buttons are still on the user's screen; the parity of
\* the pause and confirm-mode toggles of the settings screen, and the toggle
\* whose sync to the profile failed last; the draft a capture has replaced last.
NoPast == [stored |-> "none", discarded |-> NoIdea, prompts |-> 0, flips |-> [pause |-> 0, confirm |-> 0], unsynced |-> "none",
           replaced |-> NoIdea, refused |-> FALSE]

BotInit ==
    /\ call = IdleCall
    /\ userStates = << >>
    /\ ideas = <<>>
    /\ categories = {}
    /\ handlers = EmptyBag
    /\ obs = Obs("init", "", 0, {}, NewHandler("", "none"))
    /\ past = NoPast

(***************************************************************************)
(* The persistence layer (services/supabase.ts).                           *)
(***************************************************************************)
\* getUserCategories: the names of the profile's rows of public.categories, and
\* [] when the query fails (data?.map(...) || []).
getUserCategories(u, ok) == IF ok THEN {c[2] : c \in {x \in categories : x[1] = u}} ELSE {}

\* The row createIdea inserts: the columns it names, the others at their defaults
\* (transcript_edited and category_edited null, tags '{}', both flags false).
\* A property a malformed categorization lacks is undefined and so not sent.
NewIdea(u, inputType, transcript, categorization) ==
    [id |-> IdOf(Len(ideas) + 1), user_id |-> u, original_input_type |-> inputType,
     transcript |-> transcript, transcript_edited |-> [set |-> FALSE, v |-> <<>>],
     category |-> categorization.category, category_edited |-> [set |-> FALSE, v |-> ""],
     confidence_score |-> IF "confidence" \in categorization.has THEN categorization.confidence ELSE 0,
     tags |-> IF "tags" \in categorization.has THEN categorization.tags ELSE <<>>,
     is_archived |-> FALSE, is_starred |-> FALSE]

\* The insert of createIdea is rejected when the query fails or category (not null) is missing.
InsertAccepted(ok, categorization) == ok /\ "category" \in categorization.has

\* updateIdea without .eq('user_id', userId).
UpdateMatchesAnyOwner(id, u) == {i \in 1..Len(ideas) : ideas[i].id = id}

\* updateIdea: update ... eq('id', ideaId).eq('user_id', userId).select().single()
\* throws unless exactly one row matched.
UpdateMatches(id, u) == {i \in 1..Len(ideas) : ideas[i].id = id /\ ideas[i].user_id = u}

\* updateCategoryCount: insert the category of the profile unless it has it; errors are ignored.
updateCategoryCount(u, name, ok) == IF ok THEN categories \cup {<<u, name>>} ELSE categories

\* The rows in the order of order('created_at', { ascending: false }): the table
\* keeps them in the order of their insertion.
Reverse(s) == [i \in 1..Len(s) |-> s[Len(s) + 1 - i]]

\* .limit(n)
Limit(s, n) == SubSeq(s, 1, IF Len(s) < n THEN Len(s) ELSE n)

\* ILIKE compares without regard to case: the letters of the texts of a run.
Lower(s) == [i \in 1..Len(s) |-> CASE s[i] = "A" -> "a" [] s[i] = "B" -> "b" [] OTHER -> s[i]]

\* ilike('transcript', `%${sanitizedQuery}%`): the query, its %, _ and \ escaped,
\* occurs in the transcript.
Contains(text, query) == \E i \in 0..(Len(text) - Len(query)) : SubSeq(text, i + 1, i + Len(query)) = query

\* The same for the category names of a run, which are whole strings here.
LowerName(name) == CASE name = "Business" -> "business" [] name = "Health" -> "health" [] OTHER -> name

\* ilike('category', category): the pattern is not escaped, so % matches every
\* category; a pattern without a wildcard matches its own spelling in any case.
ILike(value, pattern) == pattern = "%" \/ LowerName(value) = LowerName(pattern)

\* getRecentIdeas(userId, limit)
getRecentIdeas(u, limit) ==
    LET Keep(r) == r.user_id = u /\ ~r.is_archived
    IN  Limit(SelectSeq(Reverse(ideas), Keep), limit)

\* searchIdeas(userId, query)
searchIdeasOfAll(u, query) ==
    LET Keep(r) == ~r.is_archived /\ Contains(Lower(r.transcript), Lower(query))
    IN  Limit(SelectSeq(Reverse(ideas), Keep), 10)

searchIdeas(u, query) ==
    LET Keep(r) == r.user_id = u /\ ~r.is_archived /\ Contains(Lower(r.transcript), Lower(query))
    IN  Limit(SelectSeq(Reverse(ideas), Keep), 10)

\* getIdeasByCategory(userId, category)
getIdeasByCategory(u, category) ==
    LET Keep(r) == r.user_id = u /\ ~r.is_archived /\ ILike(r.category, category)
    IN  Limit(SelectSeq(Reverse(ideas), Keep), 10)

(***************************************************************************)
(* bot.on('message:text')                                                  *)
(***************************************************************************)
\* The order of the tests of the handler, on the trimmed text.
TextRoutePausedFirst(st, text) ==
    CASE text = <<>> \/ StartsWith(text, "/") -> "ignored"
      [] OTHER ->
         IF st.paused THEN "paused"
         ELSE IF st.pendingEdit.set THEN "edit"
         ELSE IF st.pendingSearch THEN "search"
         ELSE IF StartsWith(text, "?") THEN "question"
         ELSE "capture"

TextRouteNoPause(st, text) ==
    CASE text = <<>> \/ StartsWith(text, "/") -> "ignored"
      [] OTHER ->
         IF st.pendingEdit.set THEN "edit"
         ELSE IF st.pendingSearch THEN "search"
         ELSE IF StartsWith(text, "?") THEN "question"
         ELSE "capture"

TextRouteNoQuestion(st, text) ==
    CASE text = <<>> \/ StartsWith(text, "/") -> "ignored"
      [] OTHER ->
         IF st.pendingEdit.set THEN "edit"
         ELSE IF st.pendingSearch THEN "search"
         ELSE IF st.paused THEN "paused"
         ELSE "capture"

TextRoute(st, text) ==
    CASE text = <<>> \/ StartsWith(text, "/") -> "ignored"
      [] OTHER ->
         IF st.pendingEdit.set THEN "edit"
         ELSE IF st.pendingSearch THEN "search"
         ELSE IF StartsWith(text, "?") THEN "question"
         ELSE IF st.paused THEN "paused"
         ELSE "capture"

\* if (state.pendingSearch) { state.pendingSearch = false; await performSearch(ctx, text) }
ClearSearchLater(st) == st

ClearSearch(st) == [st EXCEPT !.pendingSearch = FALSE]

\* A text message arrives: the handler runs to its first await.
TextMessage(u, raw) ==
    LET text == Trim(raw)
        us == getUserState(u)
        route == TextRoute(us[u], text)
        h == [NewHandler(u, "text") EXCEPT !.text = text, !.inputType = "text"]
    IN  /\ UNCHANGED <<call, ideas, categories>>
        /\ CASE route = "ignored" ->
                  /\ UNCHANGED <<userStates, handlers>>
                  /\ obs' = Obs("text_ignored", u, 0, {}, h)
             [] route = "edit" ->
                  /\ CanSuspend
                  /\ userStates' = us
                  /\ Suspend([h EXCEPT !.pc = "te_profile"])
                  /\ obs' = Obs("text_edit", u, 0, {"getOrCreateProfile"}, h)
             [] route = "search" ->
                  /\ CanSuspend
                  /\ userStates' = [us EXCEPT ![u] = ClearSearch(@)]
                  /\ Suspend([h EXCEPT !.pc = "search"])
                  /\ obs' = Obs("text_search", u, 0, {"getOrCreateProfile"}, h)
             [] route = "question" ->
                  /\ userStates' = us
                  /\ UNCHANGED handlers
                  /\ obs' = Obs("text_question", u, 1, {}, h)
             [] route = "paused" ->
                  /\ userStates' = us
                  /\ UNCHANGED handlers
                  /\ obs' = Obs("text_paused", u, 0, {}, h)
             [] OTHER ->
                  /\ CanSuspend
                  /\ userStates' = us
                  /\ Suspend([h EXCEPT !.pc = "tc_profile"])
                  /\ obs' = Obs("text_capture", u, 1, {"getOrCreateProfile"}, h)

\* catch (error) { state.pendingEdit = undefined; await ctx.reply('Update failed.') }
EditCatch(h) ==
    /\ userStates' = [userStates EXCEPT ![h.user].pendingEdit = NoEdit]
    /\ Finish(h)
    /\ obs' = Obs("edit_failed", h.user, 1, {}, h)
    /\ UNCHANGED <<ideas, categories>>

\* Pending edit, after getOrCreateProfile: replace the draft's text, or update the record.
TextEditProfile(h, ok) ==
    LET st == userStates[h.user]
    IN  /\ h.pc = "te_profile"
        /\ UNCHANGED call
        /\ IF ~ok \/ ~st.pendingEdit.set
           THEN EditCatch(h)
           ELSE IF st.pendingEdit.ideaId = "new" /\ st.pendingIdea.set
           THEN /\ userStates' = [userStates EXCEPT ![h.user].pendingIdea.text = h.text, ![h.user].pendingEdit = NoEdit]
                /\ Finish(h)
                /\ obs' = Obs("edit_draft", h.user, 1, {}, h)
                /\ UNCHANGED <<ideas, categories>>
           ELSE LET h2 == [h EXCEPT !.pc = "te_update", !.ideaId = st.pendingEdit.ideaId]
                IN  /\ Resume(h, h2)
                    /\ obs' = Obs("edit_update", h.user, 0, {"updateIdea"}, h2)
                    /\ UNCHANGED <<userStates, ideas, categories>>

\* .update({ transcript_edited: text, updated_at }) of the matching row
EditedRowOverwrite(row, text) == [row EXCEPT !.transcript = text]

EditedRow(row, text) == [row EXCEPT !.transcript_edited = [set |-> TRUE, v |-> text]]

\* updateIdea(ideaId, profile.id, { transcript_edited: text }) settles.
TextEditUpdate(h, ok) ==
    LET st == userStates[h.user]
        rows == UpdateMatches(h.ideaId, h.user)
    IN  /\ h.pc = "te_update"
        /\ UNCHANGED call
        /\ IF ~ok \/ rows = {}
           THEN EditCatch(h)
           ELSE /\ ideas' = [i \in 1..Len(ideas) |-> IF i \in rows THEN EditedRow(ideas[i], h.text) ELSE ideas[i]]
                /\ UNCHANGED categories
                /\ IF st.pendingEdit.set
                   THEN \* await ctx.api.deleteMessage(ctx.chat.id, state.pendingEdit.messageId)
                        /\ Resume(h, [h EXCEPT !.pc = "te_delmsg"])
                        /\ obs' = Obs("edit_updated", h.user, 0, {}, h)
                        /\ UNCHANGED userStates
                   ELSE \* the TypeError of state.pendingEdit.messageId is swallowed by catch {}
                        /\ Finish(h)
                        /\ obs' = Obs("edit_done", h.user, 1, {}, h)
                        /\ UNCHANGED userStates

\* state.pendingEdit = undefined; await ctx.reply('Updated!')
TextEditDoneBoth(h) ==
    /\ h.pc = "te_delmsg"
    /\ userStates' = [userStates EXCEPT ![h.user].pendingEdit = NoEdit, ![h.user].pendingSearch = FALSE]
    /\ Finish(h)
    /\ obs' = Obs("edit_done", h.user, 1, {}, h)
    /\ UNCHANGED <<call, ideas, categories>>

TextEditDone(h) ==
    /\ h.pc = "te_delmsg"
    /\ userStates' = [userStates EXCEPT ![h.user].pendingEdit = NoEdit]
    /\ Finish(h)
    /\ obs' = Obs("edit_done", h.user, 1, {}, h)
    /\ UNCHANGED <<call, ideas, categories>>

\* performSearch: getOrCreateProfile and searchIdeas settle; the results, "No results"
\* or 'Search failed.' are replied.
SearchDone(h, ok) ==
    /\ h.pc = "search"
    /\ Finish(h)
    /\ obs' = [Obs(IF ok THEN "search_done" ELSE "search_failed", h.user, 1, {"searchIdeas"}, h)
                  EXCEPT !.rows = IF ok THEN searchIdeas(h.user, h.text) ELSE <<>>]
    /\ UNCHANGED <<call, userStates, ideas, categories>>

(***************************************************************************)
(* Captures and saveIdea.                                                  *)
(***************************************************************************)
\* The catch of the text, voice and callback handlers: log, and one terse error
\* to the user (editMessageText of the processing message, or the callback's
\* answer); the conversation state is not touched.
HandlerCatchReset(h) ==
    /\ Finish(h)
    /\ obs' = Obs("handler_failed", h.user, 1, {}, h)
    /\ userStates' = [userStates EXCEPT ![h.user].pendingIdea = NoIdea]
    /\ UNCHANGED <<ideas, categories>>

HandlerCatch(h) ==
    /\ Finish(h)
    /\ obs' = Obs("handler_failed", h.user, 1, {}, h)
    /\ UNCHANGED <<userStates, ideas, categories>>

\* if (state.confirmMode) { state.pendingIdea = { text, inputType }; ...Save/Edit/Discard }
StoreDraftAlways(h, text, inputType) ==
    /\ userStates' = [userStates EXCEPT ![h.user].pendingIdea = PendingIdea(text, inputType)]
    /\ Finish(h)
    /\ obs' = Obs("draft_stored", h.user, 1, {"categorize"}, [h EXCEPT !.text = text, !.inputType = inputType])
    /\ UNCHANGED <<ideas, categories>>

StoreDraft(h, text, inputType) ==
    /\ userStates' = [userStates EXCEPT ![h.user].pendingIdea = PendingIdea(text, inputType)]
    /\ Finish(h)
    /\ obs' = Obs("draft_stored", h.user, 1, {}, [h EXCEPT !.text = text, !.inputType = inputType])
    /\ UNCHANGED <<ideas, categories>>

\* saveIdea(ctx, profile.id, inputType, transcript, ...) is entered: it awaits getUserCategories.
SaveStartReplaced(h, text, inputType) ==
    LET h2 == [h EXCEPT !.pc = "save_cats",
                        !.text = IF past.replaced.set THEN past.replaced.text ELSE text,
                        !.inputType = IF past.replaced.set THEN past.replaced.inputType ELSE inputType]
    IN  /\ Resume(h, h2)
        /\ obs' = Obs("save_start", h.user, 0, {"getUserCategories"}, h2)
        /\ UNCHANGED <<userStates, ideas, categories>>

SaveStart(h, text, inputType) ==
    LET h2 == [h EXCEPT !.pc = "save_cats", !.text = text, !.inputType = inputType]
    IN  /\ Resume(h, h2)
        /\ obs' = Obs("save_start", h.user, 0, {"getUserCategories"}, h2)
        /\ UNCHANGED <<userStates, ideas, categories>>

\* Text capture, after the processing reply and getOrCreateProfile.
TextCaptureProfile(h, ok) ==
    /\ h.pc = "tc_profile"
    /\ UNCHANGED call
    /\ IF ~ok THEN HandlerCatch(h)
       ELSE IF userStates[h.user].confirmMode THEN StoreDraft(h, h.text, "text")
       ELSE SaveStart(h, h.text, "text")

\* const existingCategories = await getUserCategories(profileId);
\* const categorization = await aiService.categorize(transcript, existingCategories);
CategoriesPassedNone(u, ok) == {}

CategoriesPassed(u, ok) == getUserCategories(u, ok)

\* Every provider of the bot's chain answers one of `responses`.
ResponseLists(responses) == [1..Len(BotProviders) -> responses]

\* getUserCategories settles, the chain categorizes and, on its return,
\* createIdea(profileId, inputType, transcript, category, confidence, tags) is called.
SaveCategories(h, ok, resps) ==
    LET c == ChainRun(ChainStart("categorize", BotProviders), resps)
        h2 == [h EXCEPT !.pc = "save_insert", !.categorization = c.result]
    IN  /\ h.pc = "save_cats"
        /\ UNCHANGED call
        /\ IF c.status = "thrown"
           THEN /\ Finish(h)
                /\ obs' = ObsWith("categorize_failed", h.user, 1, {"categorize"}, h, CategoriesPassed(h.user, ok))
                /\ UNCHANGED <<userStates, ideas, categories>>
           ELSE /\ Resume(h, h2)
                /\ obs' = ObsWith(IF ok THEN "categorized" ELSE "categorized_blind", h.user, 0, {"categorize", "createIdea"}, h2, CategoriesPassed(h.user, ok))
                /\ UNCHANGED <<userStates, ideas, categories>>

\* createIdea: the insert settles.
CreatedRowOther(h) == NewIdea(h.user, "text", h.text, ResultBusiness)

CreatedRow(h) == NewIdea(h.user, h.inputType, h.text, h.categorization)

SaveInsert(h, ok) ==
    /\ h.pc = "save_insert"
    /\ UNCHANGED call
    /\ IF InsertAccepted(ok, h.categorization)
       THEN /\ Len(ideas) < MaxIdeas
            /\ ideas' = Append(ideas, CreatedRow(h))
            /\ Resume(h, [h EXCEPT !.pc = "save_count", !.text = <<>>, !.inputType = ""])
            /\ obs' = Obs("idea_created", h.user, 0, {}, h)
            /\ UNCHANGED <<userStates, categories>>
       ELSE HandlerCatch(h)

\* createIdea goes on with updateCategoryCount and incrementIdeasThisMonth and
\* returns; saveIdea renders the summary, categorization.tags.map(...) throwing a
\* TypeError when the categorization has no tags, and sends it.
SaveCount(h, ok) ==
    /\ h.pc = "save_count"
    /\ UNCHANGED <<call, userStates, ideas>>
    /\ categories' = updateCategoryCount(h.user, h.categorization.category, ok)
    /\ IF "tags" \notin h.categorization.has
       THEN /\ Finish(h)
            /\ obs' = Obs("handler_failed", h.user, 1, {}, h)
       ELSE IF h.origin = "confirm_save"
       THEN /\ Resume(h, [h EXCEPT !.pc = "save_reply", !.categorization = NoValue])
            /\ obs' = Obs("summary_sent", h.user, 1, {}, h)
       ELSE /\ Finish(h)
            /\ obs' = Obs("capture_done", h.user, 1, {}, h)

\* saveIdea has returned to confirm_save: state.pendingIdea = undefined.
SaveReplyKeepDraft(h) ==
    /\ h.pc = "save_reply"
    /\ Finish(h)
    /\ obs' = Obs("save_done", h.user, 0, {}, h)
    /\ UNCHANGED <<call, ideas, categories, userStates>>

SaveReply(h) ==
    /\ h.pc = "save_reply"
    /\ Finish(h)
    /\ obs' = Obs("save_done", h.user, 0, {}, h)
    /\ UNCHANGED <<call, ideas, categories>>
    /\ userStates' = [userStates EXCEPT ![h.user].pendingIdea = NoIdea]

(***************************************************************************)
(* bot.on('message:voice')                                                 *)
(***************************************************************************)
VoiceDurations == {MAX_VOICE_DURATION_SECONDS, 150}

\* String.prototype.padStart(2, '0')
PadStart2(s) == IF Len(s) < 2 THEN "0" \o s ELSE s

\* `${Math.floor(voice.duration / 60)}:${(voice.duration % 60).toString().padStart(2, '0')}`
FormatDuration(duration) == ToString(duration \div 60) \o ":" \o PadStart2(ToString(duration % 60))

\* if (voice.duration > MAX_VOICE_DURATION_SECONDS)
TooLongFromLimit(duration) == duration >= MAX_VOICE_DURATION_SECONDS

TooLong(duration) == duration > MAX_VOICE_DURATION_SECONDS

VoiceMessageClearsSearch(u, duration) ==
    LET us == getUserState(u)
        h == [NewHandler(u, "voice") EXCEPT !.inputType = "voice"]
    IN  /\ UNCHANGED <<call, ideas, categories>>
        /\ userStates' = [us EXCEPT ![u] = ClearSearch(@)]
        /\ IF us[u].paused
           THEN /\ UNCHANGED handlers
                /\ obs' = ObsVoice("voice_paused", u, 0, {}, h, duration, "")
           ELSE IF TooLong(duration)
           THEN /\ UNCHANGED handlers
                /\ obs' = ObsVoice("voice_too_long", u, 1, {}, h, duration, FormatDuration(duration))
           ELSE /\ CanSuspend
                /\ Suspend([h EXCEPT !.pc = "v_profile"])
                /\ obs' = ObsVoice("voice_capture", u, 1, {"getOrCreateProfile"}, h, duration, "")

VoiceMessage(u, duration) ==
    LET us == getUserState(u)
        h == [NewHandler(u, "voice") EXCEPT !.inputType = "voice"]
    IN  /\ UNCHANGED <<call, ideas, categories>>
        /\ userStates' = us
        /\ IF us[u].paused
           THEN /\ UNCHANGED handlers
                /\ obs' = ObsVoice("voice_paused", u, 0, {}, h, duration, "")
           ELSE IF TooLong(duration)
           THEN /\ UNCHANGED handlers
                /\ obs' = ObsVoice("voice_too_long", u, 1, {}, h, duration, FormatDuration(duration))
           ELSE /\ CanSuspend
                /\ Suspend([h EXCEPT !.pc = "v_profile"])
                /\ obs' = ObsVoice("voice_capture", u, 1, {"getOrCreateProfile"}, h, duration, "")

\* if (!transcript?.trim())
IsBlankIfEmpty(transcript) == transcript = <<>>

IsBlank(transcript) == Trim(transcript) = <<>>

\* getOrCreateProfile, the download of the file and the chain's transcribe settle;
\* the transcript is tested (!transcript?.trim()) and becomes a draft or is saved.
VoiceProfile(h, ok, resps) ==
    LET c == ChainRun(ChainStart("transcribe", BotProviders), resps)
        transcript == c.result.text
    IN  /\ h.pc = "v_profile"
        /\ UNCHANGED call
        /\ IF ~ok THEN HandlerCatch(h)
           ELSE IF c.status = "thrown"
           THEN /\ Finish(h)
                /\ obs' = ObsChain("transcribe_failed", h.user, 1, {"transcribe"}, h, c)
                /\ UNCHANGED <<userStates, ideas, categories>>
           ELSE IF IsBlank(transcript)
           THEN /\ Finish(h)
                /\ obs' = ObsChain("voice_blank", h.user, 1, {"transcribe"}, h, c)
                /\ UNCHANGED <<userStates, ideas, categories>>
           ELSE IF userStates[h.user].confirmMode THEN StoreDraft(h, transcript, "voice")
           ELSE SaveStart(h, transcript, "voice")

(***************************************************************************)
(* bot.on('callback_query:data') and the commands.                         *)
(***************************************************************************)
\* The identifiers an `edit:<id>` button can carry: those of the summaries sent so far.
ButtonIds == {IdOf(i) : i \in 1..Len(ideas)}

\* A button is pressed: the handler looks the state up and awaits getOrCreateProfile.
Callback(u, data, id) ==
    LET h == [NewHandler(u, data) EXCEPT !.pc = "cb_profile", !.ideaId = id]
    IN  /\ CanSuspend
        /\ userStates' = getUserState(u)
        /\ Suspend(h)
        /\ obs' = Obs("callback", u, 0, {"getOrCreateProfile"}, h)
        /\ UNCHANGED <<call, ideas, categories>>

\* confirm_edit: state.pendingEdit = { ideaId: 'new', ... }, the draft is kept.
ArmEditNewDropDraft(st) == [st EXCEPT !.pendingEdit = PendingEdit("new"), !.pendingIdea = NoIdea]

ArmEditNew(st) == [st EXCEPT !.pendingEdit = PendingEdit("new")]

\* confirm_discard: state.pendingIdea = undefined
DiscardKeepRest(st) == [st EXCEPT !.pendingIdea.set = FALSE]

Discard(st) == [st EXCEPT !.pendingIdea = NoIdea]

\* getOrCreateProfile settles and the payload is dispatched.
\* getSettingsKeyboard(state): the labels of the three buttons.
getSettingsKeyboard(st) ==
    (IF st.paused THEN "Resume Capture" ELSE "Pause Capture") \o "/" \o (IF st.confirmMode THEN "Auto-save: OFF" ELSE "Auto-save: ON") \o "/Back to Menu"

\* The text of the settings screen (menu_settings, settings_pause and
\* settings_confirm build the same template) and its keyboard.
SettingsScreen(st) ==
    "Settings/Capture Mode:" \o (IF st.paused THEN "Paused" ELSE "Active") \o "/Save Mode:" \o (IF st.confirmMode THEN "Ask first" ELSE "Auto-save") \o "/" \o getSettingsKeyboard(st)

\* state.paused = !state.paused
TogglePause(st) == [st EXCEPT !.paused = ~st.paused]

\* state.confirmMode = !state.confirmMode
ToggleConfirmOn(st) == [st EXCEPT !.confirmMode = TRUE]

ToggleConfirm(st) == [st EXCEPT !.confirmMode = ~st.confirmMode]

(***************************************************************************)
(* Button payloads of the idea actions.  A payload is a sequence of pieces *)
(* of text, each either the colon or a piece that holds no colon.          *)
(***************************************************************************)
\* String.prototype.split(':')
RECURSIVE Split(_)
Split(s) ==
    IF s = <<>> THEN << <<>> >>
    ELSE IF Head(s) = ":" THEN << <<>> >> \o Split(Tail(s))
    ELSE LET r == Split(Tail(s)) IN << <<Head(s)>> \o Head(r) >> \o Tail(r)

\* Array.prototype.join(':')
RECURSIVE Join(_)
Join(parts) ==
    IF parts = <<>> THEN <<>>
    ELSE IF Len(parts) = 1 THEN parts[1]
    ELSE parts[1] \o <<":">> \o Join(Tail(parts))

\* The text a sequence of pieces spells.
RECURSIVE Concat(_)
Concat(s) == IF s = <<>> THEN "" ELSE Head(s) \o Concat(Tail(s))

\* const [action, ideaId, ...rest] = data.split(':'), and rest.join(':')
ParseIdeaActionFirstRest(data) ==
    LET parts == Split(data)
    IN  [action |-> Concat(parts[1]),
         ideaId |-> IF Len(parts) >= 2 THEN Concat(parts[2]) ELSE "",
         rest |-> IF Len(parts) >= 3 THEN parts[3] ELSE <<>>]

ParseIdeaAction(data) ==
    LET parts == Split(data)
    IN  [action |-> Concat(parts[1]),
         ideaId |-> IF Len(parts) >= 2 THEN Concat(parts[2]) ELSE "",
         rest |-> IF Len(parts) >= 3 THEN Join(SubSeq(parts, 3, Len(parts))) ELSE <<>>]

\* `setcat:${ideaId}:${cat}`
SetcatPayload(ideaId, cat) == <<"setcat", ":", ideaId, ":">> \o cat

\* const defaultCats = ['Product', 'Business', 'Personal', 'Creative', 'Technical', 'Learning']
defaultCats == << <<"Product">>, <<"Business">>, <<"Personal">>, <<"Creative">>, <<"Technical">>, <<"Learning">> >>

\* [...new Set(list)]: the first occurrence of each element, in order.
RECURSIVE Dedupe(_)
Dedupe(list) ==
    IF list = <<>> THEN <<>>
    ELSE LET front == Dedupe(SubSeq(list, 1, Len(list) - 1))
             last == list[Len(list)]
         IN  IF \E i \in 1..Len(front) : front[i] = last THEN front ELSE Append(front, last)

\* The keyboard of the recat action: one button per category, labelled with it.
RecatKeyboardAll(ideaId, list) ==
    LET allCats == list \o defaultCats
    IN  [i \in 1..Len(allCats) |-> [label |-> allCats[i], payload |-> SetcatPayload(ideaId, allCats[i])]]

RecatKeyboard(ideaId, list) ==
    LET allCats == Dedupe(list \o defaultCats)
    IN  [i \in 1..Len(allCats) |-> [label |-> allCats[i], payload |-> SetcatPayload(ideaId, allCats[i])]]

\* The lists a query without an order may return for a set of rows.
Orderings(S) == {f \in [1..Cardinality(S) -> S] : \A i, j \in 1..Cardinality(S) : f[i] = f[j] => i = j}

\* A press of a button of an idea: star:<id>, archive:<id>, recat:<id>,
\* setcat:<id>:<category>, ...
IdeaCallback(u, data) ==
    LET p == ParseIdeaAction(data)
        h == [NewHandler(u, p.action) EXCEPT !.pc = "cb_profile", !.ideaId = p.ideaId, !.rest = p.rest]
    IN  /\ CanSuspend
        /\ userStates' = getUserState(u)
        /\ Suspend(h)
        /\ obs' = [Obs("callback", u, 0, {"getOrCreateProfile"}, h) EXCEPT !.payload = data]
        /\ UNCHANGED <<call, ideas, categories>>

\* The columns updateIdea is given by each action.
UpdatedRowOriginal(row, h) == [row EXCEPT !.category = Concat(h.rest)]

UpdatedRow(row, h) ==
    CASE h.origin = "star" -> [row EXCEPT !.is_starred = TRUE]
      [] h.origin = "unstar" -> [row EXCEPT !.is_starred = FALSE]
      [] h.origin = "archive" -> [row EXCEPT !.is_archived = TRUE]
      [] OTHER -> [row EXCEPT !.category_edited = [set |-> TRUE, v |-> Concat(h.rest)]]

UpdateActions == {"star", "unstar", "archive", "setcat"}

\* star, unstar, archive, setcat: updateIdea settles, the callback is answered
\* (and, for archive and setcat, the message of the idea deleted).
IdeaUpdated(h, ok) ==
    LET rows == UpdateMatches(h.ideaId, h.user)
    IN  /\ h.pc = "ia_update"
        /\ UNCHANGED call
        /\ IF ~ok \/ rows = {}
           THEN HandlerCatch(h)
           ELSE /\ ideas' = [i \in 1..Len(ideas) |-> IF i \in rows THEN UpdatedRow(ideas[i], h) ELSE ideas[i]]
                /\ Finish(h)
                /\ obs' = Obs("idea_updated", h.user, 1, {}, h)
                /\ UNCHANGED <<userStates, categories>>

\* recat: getUserCategories settles and the keyboard of the choices replaces
\* the one of the message.
RecatList(h, ok, list) ==
    /\ h.pc = "recat_list"
    /\ list \in Orderings(getUserCategories(h.user, ok))
    /\ Finish(h)
    /\ obs' = [Obs("recat_shown", h.user, 1, {}, h) EXCEPT !.choices = RecatKeyboard(h.ideaId, list)]
    /\ UNCHANGED <<call, userStates, ideas, categories>>

\* The rows a listing of the user's ideas ranges over: those of the user that
\* are not archived, newest first.
RECURSIVE NewestFirst(_, _)
NewestFirst(rows, u) ==
    IF rows = <<>> THEN <<>>
    ELSE LET last == rows[Len(rows)]
         IN  (IF last.user_id = u /\ ~last.is_archived THEN <<last>> ELSE <<>>) \o NewestFirst(SubSeq(rows, 1, Len(rows) - 1), u)

\* getAllIdeas(profileId, limit, offset): the records [offset, offset + limit)
\* of the listing.
getAllIdeas(u, limit, offset) ==
    LET v == NewestFirst(ideas, u)
        to == IF offset + limit < Len(v) THEN offset + limit ELSE Len(v)
    IN  IF offset + 1 > to THEN <<>> ELSE SubSeq(v, offset + 1, to)

\* getUserStats(profileId).totalIdeas: the exact count of the user's ideas that
\* are not archived, and 0 when the count query returns no count.
TotalIdeas(u, ok) == IF ok THEN Len(NewestFirst(ideas, u)) ELSE 0

\* The number of records of a page of the browser: getAllIdeas(profileId, 5, offset).
PageSize == 5

\* The navigation row of showIdeasInline: Prev when offset > 0, Next when the
\* page is full and offset + 5 < stats.totalIdeas.
NavButtonsUpTo(offset, pageLen, total) ==
    (IF offset > 0 THEN {[label |-> "Prev", target |-> offset - PageSize]} ELSE {})
    \cup (IF pageLen = PageSize /\ offset + PageSize <= total THEN {[label |-> "Next", target |-> offset + PageSize]} ELSE {})

NavButtons(offset, pageLen, total) ==
    (IF offset > 0 THEN {[label |-> "Prev", target |-> offset - PageSize]} ELSE {})
    \cup (IF pageLen = PageSize /\ offset + PageSize < total THEN {[label |-> "Next", target |-> offset + PageSize]} ELSE {})

\* truncate(text, maxLength)
truncate(text, maxLength) == IF Len(text) <= maxLength THEN text ELSE SubSeq(text, 1, maxLength - 3) \o <<".", ".", ".">>

\* formatIdea(idea): star, category and the transcript cut to 50 characters (the
\* date of creation, which the model's rows do not hold, is left out).
formatIdea(idea) == [star |-> idea.is_starred, category |-> idea.category, transcript |-> truncate(idea.transcript, 50)]

\* A press of a button whose payload is browse_<offset>: parseInt(data.split('_')[1]).
BrowseCallback(u, offset) ==
    LET h == [NewHandler(u, "browse") EXCEPT !.pc = "cb_profile", !.offset = offset]
    IN  /\ CanSuspend
        /\ userStates' = getUserState(u)
        /\ Suspend(h)
        /\ obs' = Obs("callback", u, 0, {"getOrCreateProfile"}, h)
        /\ UNCHANGED <<call, ideas, categories>>

\* showIdeasInline: getAllIdeas settles; its failure is caught by the function,
\* which logs it and sends nothing.
BrowsePage(h, ok) ==
    /\ h.pc = "browse_page"
    /\ UNCHANGED <<call, userStates, ideas, categories>>
    /\ IF ok
       THEN /\ Resume(h, [h EXCEPT !.pc = "browse_stats", !.page = getAllIdeas(h.user, PageSize, h.offset)])
            /\ obs' = Obs("browse_page", h.user, 0, {"getUserStats"}, h)
       ELSE /\ Finish(h)
            /\ obs' = Obs("browse_failed", h.user, 0, {}, h)

\* showIdeasInline: getUserStats settles and the page is rendered with its
\* navigation row.
BrowseStats(h, ok) ==
    LET total == TotalIdeas(h.user, ok)
        shownPage(step, nav) == [Obs(step, h.user, 1, {}, h) EXCEPT !.offset = h.offset, !.page = Len(h.page), !.total = total, !.nav = nav,
                                                                      !.lines = [i \in 1..Len(h.page) |-> formatIdea(h.page[i])]]
    IN  /\ h.pc = "browse_stats"
        /\ UNCHANGED <<call, userStates, ideas, categories>>
        /\ Finish(h)
        /\ IF Len(h.page) = 0 /\ h.offset = 0
           THEN obs' = shownPage("browse_empty", {})
           ELSE obs' = shownPage("browse_shown", NavButtons(h.offset, Len(h.page), total))

\* /recent (showIdeas) and /category <name>: the handler runs to its await of
\* getOrCreateProfile; /category without a name replies its usage.
FetchCommand(u, cmd, arg) ==
    LET h == [NewHandler(u, cmd) EXCEPT !.pc = "fetch", !.text = arg]
    IN  /\ cmd \in {"recent", "category"}
        /\ UNCHANGED <<call, userStates, ideas, categories>>
        /\ IF cmd = "category" /\ arg = <<>>
           THEN /\ UNCHANGED handlers
                /\ obs' = Obs("command_usage", u, 1, {}, h)
           ELSE /\ CanSuspend
                /\ Suspend(h)
                /\ obs' = Obs("command_" \o cmd, u, 0, {"getOrCreateProfile"}, h)

\* getRecentIdeas(profile.id, 10) or getIdeasByCategory(profile.id, categoryName)
\* settles: the list, the notice of an empty list, or the error is replied.
Fetched(h, ok) ==
    LET found == IF h.origin = "recent" THEN getRecentIdeas(h.user, 10) ELSE getIdeasByCategory(h.user, Concat(h.text))
    IN  /\ h.pc = "fetch"
        /\ Finish(h)
        /\ obs' = [Obs(IF ok THEN "fetch_done" ELSE "fetch_failed", h.user, 1,
                       {IF h.origin = "recent" THEN "getRecentIdeas" ELSE "getIdeasByCategory"}, h)
                      EXCEPT !.rows = IF ok THEN found ELSE <<>>]
        /\ UNCHANGED <<call, userStates, ideas, categories>>

CallbackProfile(h, ok) ==
    LET u == h.user
        st == userStates[u]
        done(step, st2, replies) ==
            /\ userStates' = [userStates EXCEPT ![u] = st2]
            /\ Finish(h)
            /\ obs' = Obs(step, u, replies, {}, h)
        wait(step, st2, pc, replies, calls) ==
            /\ userStates' = [userStates EXCEPT ![u] = st2]
            /\ Resume(h, [h EXCEPT !.pc = pc])
            /\ obs' = Obs(step, u, replies, calls, h)
    IN  /\ h.pc = "cb_profile"
        /\ UNCHANGED call
        /\ IF ~ok THEN HandlerCatch(h)
           ELSE /\ UNCHANGED <<ideas, categories>>
                /\ CASE h.origin = "confirm_save" /\ st.pendingIdea.set -> wait("save_pressed", st, "cs_answer", 1, {})
                     [] h.origin = "confirm_save" /\ ~st.pendingIdea.set -> done("callback_unhandled", st, 0)
                     [] h.origin = "confirm_edit" -> wait("edit_pressed", st, "ce_prompt", 1, {})
                     [] h.origin = "confirm_discard" -> done("discarded", Discard(st), 1)
                     [] h.origin = "menu_settings" ->
                           /\ UNCHANGED userStates
                           /\ Finish(h)
                           /\ obs' = [Obs("settings_shown", u, 2, {}, h) EXCEPT !.shown = SettingsScreen(st)]
                     [] h.origin = "settings_pause" -> wait("pause_toggled", TogglePause(st), "set_sync", 0, {"updateProfileSettings"})
                     [] h.origin = "settings_confirm" -> wait("confirm_toggled", ToggleConfirm(st), "set_sync", 0, {"updateProfileSettings"})
                     [] h.origin = "menu_ideas" -> wait("browse_start", [st EXCEPT !.browseOffset = 0], "browse_page", 1, {"getAllIdeas"})
                     [] h.origin = "browse" ->
                           /\ userStates' = [userStates EXCEPT ![u].browseOffset = h.offset]
                           /\ Resume(h, [h EXCEPT !.pc = "browse_page"])
                           /\ obs' = Obs("browse_start", u, 1, {"getAllIdeas"}, h)
                     [] h.origin = "menu_search" -> done("search_armed", [st EXCEPT !.pendingSearch = TRUE], 1)
                     [] h.origin \in UpdateActions -> wait("idea_update", st, "ia_update", 0, {"updateIdea"})
                     [] h.origin = "recat" -> wait("recat_pressed", st, "recat_list", 0, {"getUserCategories"})
                     [] OTHER -> done("edit_armed", [st EXCEPT !.pendingEdit = PendingEdit(h.ideaId)], 1)

\* confirm_save, after answerCallbackQuery('Saving...'): the draft is read
\* (state.pendingIdea.inputType, state.pendingIdea.text) and saveIdea is entered.
ConfirmSaveAnsweredAlone(h) ==
    LET st == userStates[h.user]
        others == {x \in BagToSet(handlers) : x.user = h.user /\ x.origin = "confirm_save" /\ x.pc \notin {"cb_profile", "cs_answer"}}
    IN  /\ h.pc = "cs_answer"
        /\ UNCHANGED call
        /\ IF st.pendingIdea.set /\ others = {}
           THEN SaveStart(h, st.pendingIdea.text, st.pendingIdea.inputType)
           ELSE HandlerCatch(h)

ConfirmSaveAnswered(h) ==
    LET st == userStates[h.user]
    IN  /\ h.pc = "cs_answer"
        /\ UNCHANGED call
        /\ IF st.pendingIdea.set
           THEN SaveStart(h, st.pendingIdea.text, st.pendingIdea.inputType)
           ELSE HandlerCatch(h)

\* confirm_edit, after the answer and the edit prompt.
ConfirmEditPrompted(h) ==
    /\ h.pc = "ce_prompt"
    /\ userStates' = [userStates EXCEPT ![h.user] = ArmEditNew(@)]
    /\ Finish(h)
    /\ obs' = Obs("edit_new_armed", h.user, 1, {}, h)
    /\ UNCHANGED <<call, ideas, categories>>

\* settings_pause / settings_confirm: updateProfileSettings settles, then the
\* answer and the re-rendered settings screen.
SettingsSyncedOrUndone(h, ok) ==
    /\ h.pc = "set_sync"
    /\ UNCHANGED call
    /\ IF ~ok
       THEN /\ Finish(h)
            /\ obs' = Obs("handler_failed", h.user, 1, {}, h)
            /\ userStates' = [userStates EXCEPT ![h.user] = IF h.origin = "settings_pause" THEN TogglePause(@) ELSE ToggleConfirm(@)]
            /\ UNCHANGED <<ideas, categories>>
       ELSE /\ Finish(h)
            /\ obs' = [Obs("settings_rendered", h.user, 2, {}, h) EXCEPT !.shown = SettingsScreen(userStates[h.user])]
            /\ UNCHANGED <<userStates, ideas, categories>>

SettingsSynced(h, ok) ==
    /\ h.pc = "set_sync"
    /\ UNCHANGED call
    /\ IF ~ok THEN HandlerCatch(h)
       ELSE /\ Finish(h)
            /\ obs' = [Obs("settings_rendered", h.user, 2, {}, h) EXCEPT !.shown = SettingsScreen(userStates[h.user])]
            /\ UNCHANGED <<userStates, ideas, categories>>

Commands == {"pause", "resume", "search"}

\* bot.command('pause' | 'resume' | 'search' without a query)
CommandForAll(u, cmd) ==
    LET us == getUserState(u)
    IN  /\ userStates' = CASE cmd = "pause" -> [v \in DOMAIN us |-> [us[v] EXCEPT !.paused = TRUE]]
                           [] cmd = "resume" -> [v \in DOMAIN us |-> [us[v] EXCEPT !.paused = FALSE]]
                           [] OTHER -> [v \in DOMAIN us |-> [us[v] EXCEPT !.pendingSearch = TRUE]]
        /\ obs' = Obs("command_" \o cmd, u, 1, {}, NewHandler(u, cmd))
        /\ UNCHANGED <<call, ideas, categories, handlers>>

Command(u, cmd) ==
    LET us == getUserState(u)
    IN  /\ userStates' = CASE cmd = "pause" -> [us EXCEPT ![u].paused = TRUE]
                           [] cmd = "resume" -> [us EXCEPT ![u].paused = FALSE]
                           [] OTHER -> [us EXCEPT ![u].pendingSearch = TRUE]
        /\ obs' = Obs("command_" \o cmd, u, 1, {}, NewHandler(u, cmd))
        /\ UNCHANGED <<call, ideas, categories, handlers>>

\* The profile getOrCreateProfile hands to /start: whether it was just created,
\* and its confirm_mode and paused columns, each of which may be undefined.
StartProfiles == [is_new : BOOLEAN, confirm_mode : {"undefined", "true"}, paused : {"undefined", "true", "false"}]

ProfileFields(profile) == <<IF profile.is_new THEN "new" ELSE "returning", profile.confirm_mode, profile.paused>>

\* /start after the profile arrived, without the reset of paused for a
\* returning user.
StartStateKeepPaused(st, profile) ==
    LET cleared == [st EXCEPT !.pendingSearch = FALSE, !.pendingEdit = NoEdit]
        confirm == IF profile.confirm_mode # "undefined" THEN [cleared EXCEPT !.confirmMode = (profile.confirm_mode = "true")] ELSE cleared
    IN  IF profile.paused # "undefined" THEN [confirm EXCEPT !.paused = (profile.paused = "true")] ELSE confirm

\* /start after the profile arrived, without the reset of pendingEdit.
StartStateKeepEdit(st, profile) ==
    LET cleared == [st EXCEPT !.pendingSearch = FALSE]
        confirm == IF profile.confirm_mode # "undefined" THEN [cleared EXCEPT !.confirmMode = (profile.confirm_mode = "true")] ELSE cleared
        paused == IF profile.paused # "undefined" THEN [confirm EXCEPT !.paused = (profile.paused = "true")] ELSE confirm
    IN  IF profile.is_new THEN paused ELSE [paused EXCEPT !.paused = FALSE]

\* state.pendingSearch = false; state.pendingEdit = undefined; confirm_mode and
\* paused are taken from the profile when it defines them; a returning user
\* (not is_new) is unpaused.
StartState(st, profile) ==
    LET cleared == [st EXCEPT !.pendingSearch = FALSE, !.pendingEdit = NoEdit]
        confirm == IF profile.confirm_mode # "undefined" THEN [cleared EXCEPT !.confirmMode = (profile.confirm_mode = "true")] ELSE cleared
        paused == IF profile.paused # "undefined" THEN [confirm EXCEPT !.paused = (profile.paused = "true")] ELSE confirm
    IN  IF profile.is_new THEN paused ELSE [paused EXCEPT !.paused = FALSE]

\* bot.command('start'): getUserState, then the await of getOrCreateProfile.
StartCommand(u) ==
    LET h == [NewHandler(u, "start") EXCEPT !.pc = "start_profile"]
    IN  /\ CanSuspend
        /\ userStates' = getUserState(u)
        /\ Suspend(h)
        /\ obs' = Obs("command_start", u, 0, {"getOrCreateProfile"}, h)
        /\ UNCHANGED <<call, ideas, categories>>

\* getOrCreateProfile settles: the handler has no catch, so a failure leaves
\* the state and replies nothing; otherwise the state is reset and the
\* onboarding (new user) or the menu (returning user) is replied.
StartProfile(h, ok, profile) ==
    /\ h.pc = "start_profile"
    /\ Finish(h)
    /\ UNCHANGED <<call, ideas, categories>>
    /\ IF ~ok
       THEN /\ UNCHANGED userStates
            /\ obs' = Obs("start_failed", h.user, 0, {}, h)
       ELSE /\ userStates' = [userStates EXCEPT ![h.user] = StartState(userStates[h.user], profile)]
            /\ obs' = [Obs(IF profile.is_new THEN "start_onboarding" ELSE "start_menu", h.user, 1, {}, h)
                          EXCEPT !.payload = ProfileFields(profile)]

Init == BotInit

\* The select and the insert of updateCategoryCount are taken to succeed.
CountOutcomes == {TRUE}

(***************************************************************************)
(* Captures and their confirmation: texts and voice messages of a user     *)
(* who toggles confirm mode and presses Save, Edit and Discard.            *)
(***************************************************************************)
ConfirmTexts == {<<" ", "a", " ">>}

ConfirmCallbacks == {"confirm_save", "confirm_edit", "confirm_discard", "settings_confirm"}

Next ==
    \/ (\E u \in Users, raw \in ConfirmTexts : TextMessage(u, raw)) /\ UNCHANGED past
    \/ (\E u \in Users : VoiceMessage(u, MAX_VOICE_DURATION_SECONDS)) /\ UNCHANGED past
    \/ (\E u \in Users, data \in ConfirmCallbacks : Callback(u, data, "")) /\ UNCHANGED past
    \/ (\E h \in Suspended, ok \in BOOLEAN : TextEditProfile(h, ok)) /\ UNCHANGED past
    \/ (\E h \in Suspended, ok \in BOOLEAN : TextEditUpdate(h, ok)) /\ UNCHANGED past
    \/ (\E h \in Suspended, ok \in BOOLEAN : TextCaptureProfile(h, ok)) /\ UNCHANGED past
    \/ (\E h \in Suspended, ok \in BOOLEAN, resps \in ResponseLists(BotCategorizeResponses) : SaveCategories(h, ok, resps)) /\ UNCHANGED past
    \/ (\E h \in Suspended, ok \in BOOLEAN : SaveInsert(h, ok)) /\ UNCHANGED past
    \/ (\E h \in Suspended, ok \in CountOutcomes : SaveCount(h, ok)) /\ UNCHANGED past
    \/ (\E h \in Suspended : SaveReply(h)) /\ UNCHANGED past
    \/ (\E h \in Suspended, ok \in BOOLEAN, resps \in ResponseLists(TranscribeResponses) : VoiceProfile(h, ok, resps)) /\ UNCHANGED past
    \/ (\E h \in Suspended, ok \in BOOLEAN : CallbackProfile(h, ok)) /\ UNCHANGED past
    \/ (\E h \in Suspended : ConfirmSaveAnswered(h)) /\ UNCHANGED past
    \/ (\E h \in Suspended : ConfirmEditPrompted(h)) /\ UNCHANGED past
    \/ (\E h \in Suspended, ok \in BOOLEAN : SettingsSynced(h, ok)) /\ UNCHANGED past

Spec == Init /\ [][Next]_vars

(***************************************************************************)
(* The routing of messages: /pause, /resume and /search, the edit button   *)
(* of a saved idea, and every text and voice message, confirm mode off.    *)
(***************************************************************************)
CaptureCategorizeResponses == {SdkThrow, SdkJson(ResultBusiness)}

CaptureTranscribeResponses == {SdkThrow, SdkText(<<"a">>)}

RoutingNext ==
    \/ (\E u \in Users, raw \in RawTexts : TextMessage(u, raw)) /\ UNCHANGED past
    \/ (\E u \in Users, d \in VoiceDurations : VoiceMessage(u, d)) /\ UNCHANGED past
    \/ (\E u \in Users, cmd \in Commands : Command(u, cmd)) /\ UNCHANGED past
    \/ (\E u \in Users, id \in ButtonIds : Callback(u, "edit", id)) /\ UNCHANGED past
    \/ (\E h \in Suspended, ok \in BOOLEAN : TextEditProfile(h, ok)) /\ UNCHANGED past
    \/ (\E h \in Suspended, ok \in BOOLEAN : TextEditUpdate(h, ok)) /\ UNCHANGED past
    \/ (\E h \in Suspended : TextEditDone(h)) /\ UNCHANGED past
    \/ (\E h \in Suspended, ok \in BOOLEAN : SearchDone(h, ok)) /\ UNCHANGED past
    \/ (\E h \in Suspended, ok \in BOOLEAN : TextCaptureProfile(h, ok)) /\ UNCHANGED past
    \/ (\E h \in Suspended, ok \in BOOLEAN, resps \in ResponseLists(CaptureCategorizeResponses) : SaveCategories(h, ok, resps)) /\ UNCHANGED past
    \/ (\E h \in Suspended, ok \in BOOLEAN : SaveInsert(h, ok)) /\ UNCHANGED past
    \/ (\E h \in Suspended, ok \in CountOutcomes : SaveCount(h, ok)) /\ UNCHANGED past
    \/ (\E h \in Suspended, ok \in BOOLEAN, resps \in ResponseLists(CaptureTranscribeResponses) : VoiceProfile(h, ok, resps)) /\ UNCHANGED past
    \/ (\E h \in Suspended, ok \in BOOLEAN : CallbackProfile(h, ok)) /\ UNCHANGED past

SpecRouting == Init /\ [][RoutingNext]_vars

(***************************************************************************)
(* Drafts and edits: a user in confirm mode whose captures become drafts,  *)
(* who presses Save, Edit and Discard on the prompts still on the screen   *)
(* and the edit button of a saved idea.  The history variable remembers    *)
(* the drafts stored, the draft last discarded and the prompts on screen.  *)
(***************************************************************************)
MaxPrompts == 2

CaptureTexts == {<<"a">>, <<"b">>}

PromptCallbacks == {"confirm_save", "confirm_edit", "confirm_discard"}

\* A prompt with its Save/Edit/Discard keyboard is sent when a draft is stored
\* (editMessageText of the processing message) or replaced (ctx.reply); the
\* keyboard goes when Edit rewrites the message, Discard deletes it, or saveIdea
\* turns it into the summary of the saved idea.
PromptsAfter(n) ==
    CASE obs'.step \in {"draft_stored", "edit_draft"} -> IF n < MaxPrompts THEN n + 1 ELSE n
      [] obs'.step \in {"edit_new_armed", "discarded"} -> IF n > 0 THEN n - 1 ELSE 0
      [] obs'.step = "summary_sent" /\ obs'.origin = "confirm_save" -> IF n > 0 THEN n - 1 ELSE 0
      [] OTHER -> n

\* The history a specification keeps: the fields named in `fields` follow the
\* step, the others stay as they are.
Remember(fields) ==
    LET st == StateOf(obs'.user)
        stored == IF obs'.step \in {"draft_stored", "edit_draft"}
                  THEN (IF past.stored = "none" THEN "one" ELSE "many")
                  ELSE past.stored
        discarded == IF obs'.step = "discarded" /\ st.pendingIdea.set THEN st.pendingIdea ELSE past.discarded
        replaced == IF obs'.step = "draft_stored" /\ st.pendingIdea.set THEN st.pendingIdea ELSE past.replaced
    IN  past' = [stored |-> IF "stored" \in fields THEN stored ELSE past.stored,
                 discarded |-> IF "discarded" \in fields THEN discarded ELSE past.discarded,
                 prompts |-> IF "prompts" \in fields THEN PromptsAfter(past.prompts) ELSE past.prompts,
                 flips |-> past.flips,
                 unsynced |-> past.unsynced,
                 replaced |-> IF "replaced" \in fields THEN replaced ELSE past.replaced,
                 refused |-> past.refused]

DraftsPast == {"stored", "prompts"}

DraftsNext ==
    \/ (\E u \in Users, raw \in CaptureTexts : TextMessage(u, raw)) /\ Remember(DraftsPast)
    \/ (\E u \in Users : Callback(u, "settings_confirm", "")) /\ Remember(DraftsPast)
    \/ (\E u \in Users, data \in PromptCallbacks : past.prompts > 0 /\ Callback(u, data, "")) /\ Remember(DraftsPast)
    \/ (\E h \in Suspended, ok \in BOOLEAN : TextEditProfile(h, ok)) /\ Remember(DraftsPast)
    \/ (\E h \in Suspended, ok \in BOOLEAN : TextEditUpdate(h, ok)) /\ Remember(DraftsPast)
    \/ (\E h \in Suspended, ok \in BOOLEAN : TextCaptureProfile(h, ok)) /\ Remember(DraftsPast)
    \/ (\E h \in Suspended, ok \in BOOLEAN, resps \in ResponseLists(CaptureCategorizeResponses) : SaveCategories(h, ok, resps)) /\ Remember(DraftsPast)
    \/ (\E h \in Suspended, ok \in BOOLEAN : SaveInsert(h, ok)) /\ Remember(DraftsPast)
    \/ (\E h \in Suspended, ok \in CountOutcomes : SaveCount(h, ok)) /\ Remember(DraftsPast)
    \/ (\E h \in Suspended : SaveReply(h)) /\ Remember(DraftsPast)
    \/ (\E h \in Suspended, ok \in BOOLEAN : CallbackProfile(h, ok)) /\ Remember(DraftsPast)
    \/ (\E h \in Suspended : ConfirmSaveAnswered(h)) /\ Remember(DraftsPast)
    \/ (\E h \in Suspended : ConfirmEditPrompted(h)) /\ Remember(DraftsPast)
    \/ (\E h \in Suspended, ok \in BOOLEAN : SettingsSynced(h, ok)) /\ Remember(DraftsPast)

SpecDrafts == Init /\ [][DraftsNext]_vars

(***************************************************************************)
(* Discarded drafts: text and voice captures of a user in confirm mode who *)
(* presses Save and Discard on the prompts still on the screen.  The       *)
(* history variable remembers the draft last discarded.                    *)
(***************************************************************************)
SingleText == {<<"b">>}

DiscardCallbacks == {"confirm_save", "confirm_discard"}

DiscardPast == {"discarded", "prompts", "replaced"}

DiscardNext ==
    \/ (\E u \in Users, raw \in SingleText : TextMessage(u, raw)) /\ Remember(DiscardPast)
    \/ (\E u \in Users : VoiceMessage(u, MAX_VOICE_DURATION_SECONDS)) /\ Remember(DiscardPast)
    \/ (\E u \in Users : Callback(u, "settings_confirm", "")) /\ Remember(DiscardPast)
    \/ (\E u \in Users, data \in DiscardCallbacks : past.prompts > 0 /\ Callback(u, data, "")) /\ Remember(DiscardPast)
    \/ (\E h \in Suspended, ok \in BOOLEAN : TextCaptureProfile(h, ok)) /\ Remember(DiscardPast)
    \/ (\E h \in Suspended, ok \in BOOLEAN, resps \in ResponseLists(CaptureTranscribeResponses) : VoiceProfile(h, ok, resps)) /\ Remember(DiscardPast)
    \/ (\E h \in Suspended, ok \in BOOLEAN, resps \in ResponseLists(CaptureCategorizeResponses) : SaveCategories(h, ok, resps)) /\ Remember(DiscardPast)
    \/ (\E h \in Suspended, ok \in BOOLEAN : SaveInsert(h, ok)) /\ Remember(DiscardPast)
    \/ (\E h \in Suspended, ok \in CountOutcomes : SaveCount(h, ok)) /\ Remember(DiscardPast)
    \/ (\E h \in Suspended : SaveReply(h)) /\ Remember(DiscardPast)
    \/ (\E h \in Suspended, ok \in BOOLEAN : CallbackProfile(h, ok)) /\ Remember(DiscardPast)
    \/ (\E h \in Suspended : ConfirmSaveAnswered(h)) /\ Remember(DiscardPast)
    \/ (\E h \in Suspended, ok \in BOOLEAN : SettingsSynced(h, ok)) /\ Remember(DiscardPast)

SpecDiscard == Init /\ [][DiscardNext]_vars

(***************************************************************************)
(* Edits of saved ideas: captures with confirm mode off and on, the edit   *)
(* button of the summary of a saved idea, and the replacement text.        *)
(***************************************************************************)
EditNext ==
    \/ (\E u \in Users, raw \in CaptureTexts : TextMessage(u, raw)) /\ UNCHANGED past
    \/ (\E u \in Users : Callback(u, "settings_confirm", "")) /\ UNCHANGED past
    \/ (\E u \in Users, id \in ButtonIds : Callback(u, "edit", id)) /\ UNCHANGED past
    \/ (\E h \in Suspended, ok \in BOOLEAN : TextEditProfile(h, ok)) /\ UNCHANGED past
    \/ (\E h \in Suspended, ok \in BOOLEAN : TextEditUpdate(h, ok)) /\ UNCHANGED past
    \/ (\E h \in Suspended : TextEditDone(h)) /\ UNCHANGED past
    \/ (\E h \in Suspended, ok \in BOOLEAN : TextCaptureProfile(h, ok)) /\ UNCHANGED past
    \/ (\E h \in Suspended, ok \in BOOLEAN, resps \in ResponseLists(CaptureCategorizeResponses) : SaveCategories(h, ok, resps)) /\ UNCHANGED past
    \/ (\E h \in Suspended, ok \in BOOLEAN : SaveInsert(h, ok)) /\ UNCHANGED past
    \/ (\E h \in Suspended, ok \in CountOutcomes : SaveCount(h, ok)) /\ UNCHANGED past
    \/ (\E h \in Suspended, ok \in BOOLEAN : CallbackProfile(h, ok)) /\ UNCHANGED past
    \/ (\E h \in Suspended, ok \in BOOLEAN : SettingsSynced(h, ok)) /\ UNCHANGED past

SpecEdit == Init /\ [][EditNext]_vars

(***************************************************************************)
(* Voice messages: notes of several durations sent by a user who pauses,   *)
(* resumes and toggles confirm mode, the providers answering with a        *)
(* failure, a transcript, or an empty or blank text.                       *)
(***************************************************************************)
VoiceNoteDurations == {60, MAX_VOICE_DURATION_SECONDS, 121, 125, 150}

VoiceTranscribeResponses == {SdkThrow, SdkText(<<"a">>), SdkText(<<>>), SdkText(<<" ", " ">>)}

VoiceCommands == {"pause", "resume"}

VoiceNext ==
    \/ (\E u \in Users, d \in VoiceNoteDurations : VoiceMessage(u, d)) /\ UNCHANGED past
    \/ (\E u \in Users, cmd \in VoiceCommands : Command(u, cmd)) /\ UNCHANGED past
    \/ (\E u \in Users : Callback(u, "settings_confirm", "")) /\ UNCHANGED past
    \/ (\E h \in Suspended, ok \in BOOLEAN, resps \in ResponseLists(VoiceTranscribeResponses) : VoiceProfile(h, ok, resps)) /\ UNCHANGED past
    \/ (\E h \in Suspended, ok \in BOOLEAN, resps \in ResponseLists(CaptureCategorizeResponses) : SaveCategories(h, ok, resps)) /\ UNCHANGED past
    \/ (\E h \in Suspended, ok \in BOOLEAN : SaveInsert(h, ok)) /\ UNCHANGED past
    \/ (\E h \in Suspended, ok \in CountOutcomes : SaveCount(h, ok)) /\ UNCHANGED past
    \/ (\E h \in Suspended, ok \in BOOLEAN : CallbackProfile(h, ok)) /\ UNCHANGED past
    \/ (\E h \in Suspended, ok \in BOOLEAN : SettingsSynced(h, ok)) /\ UNCHANGED past

SpecVoice == Init /\ [][VoiceNext]_vars

(***************************************************************************)
(* The settings screen: the user opens it, presses its two toggles, the    *)
(* sync of a toggle to the profile succeeding or failing, and sends text   *)
(* in between.                                                             *)
(***************************************************************************)
SettingsTexts == {<<"a">>}

SettingsCallbacks == {"menu_settings", "settings_pause", "settings_confirm"}

\* The step is the failure of updateProfileSettings in a settings handler.
SyncFailed == obs'.step = "handler_failed" /\ \E h \in BagToSet(handlers) : h.pc = "set_sync" /\ h.origin = obs'.origin /\ handlers' = handlers (-) SetToBag({h})

Flipped ==
    past' = [past EXCEPT !.flips = [pause |-> IF obs'.step = "pause_toggled" THEN 1 - @.pause ELSE @.pause,
                                    confirm |-> IF obs'.step = "confirm_toggled" THEN 1 - @.confirm ELSE @.confirm],
                         !.unsynced = IF SyncFailed THEN obs'.origin ELSE @]

SettingsNext ==
    \/ (\E u \in Users, raw \in SettingsTexts : TextMessage(u, raw)) /\ Flipped
    \/ (\E u \in Users, data \in SettingsCallbacks : Callback(u, data, "")) /\ Flipped
    \/ (\E h \in Suspended, ok \in BOOLEAN : CallbackProfile(h, ok)) /\ Flipped
    \/ (\E h \in Suspended, ok \in BOOLEAN : SettingsSynced(h, ok)) /\ Flipped
    \/ (\E h \in Suspended, ok \in BOOLEAN : TextCaptureProfile(h, ok)) /\ Flipped
    \/ (\E h \in Suspended, ok \in BOOLEAN, resps \in ResponseLists(CaptureCategorizeResponses) : SaveCategories(h, ok, resps)) /\ Flipped
    \/ (\E h \in Suspended, ok \in BOOLEAN : SaveInsert(h, ok)) /\ Flipped
    \/ (\E h \in Suspended, ok \in CountOutcomes : SaveCount(h, ok)) /\ Flipped

SpecSettings == Init /\ [][SettingsNext]_vars

(***************************************************************************)
(* The inline idea browser over a user who has saved up to MaxBrowseIdeas  *)
(* ideas, the oldest of them archived or not: My Ideas and the browse      *)
(* buttons are pressed, the page and the count queries answering or not.   *)
(***************************************************************************)
MaxBrowseIdeas == 11

BrowseOffsets == {0, 5, 10, 15}

BrowseUser == CHOOSE u \in Users : TRUE

\* The ideas table after n text captures of the user, saved as Business.
RECURSIVE SavedIdeas(_)
SavedIdeas(n) ==
    IF n = 0 THEN <<>>
    ELSE LET rows == SavedIdeas(n - 1)
         IN  Append(rows, [id |-> IdOf(n), user_id |-> BrowseUser, original_input_type |-> "text",
                           transcript |-> <<"a">>, transcript_edited |-> [set |-> FALSE, v |-> <<>>],
                           category |-> ResultBusiness.category, category_edited |-> [set |-> FALSE, v |-> ""],
                           confidence_score |-> ResultBusiness.confidence, tags |-> ResultBusiness.tags,
                           is_archived |-> FALSE, is_starred |-> FALSE])

BrowseInit ==
    /\ call = IdleCall
    /\ userStates = << >>
    /\ \E n \in 0..MaxBrowseIdeas, archived \in BOOLEAN :
          ideas = [i \in 1..n |-> IF i = 1 /\ archived THEN [SavedIdeas(n)[i] EXCEPT !.is_archived = TRUE] ELSE SavedIdeas(n)[i]]
    /\ categories = {}
    /\ handlers = EmptyBag
    /\ obs = Obs("init", "", 0, {}, NewHandler("", "none"))
    /\ past = NoPast

BrowseNext ==
    \/ (\E u \in Users : Callback(u, "menu_ideas", "")) /\ UNCHANGED past
    \/ (\E u \in Users, offset \in BrowseOffsets : BrowseCallback(u, offset)) /\ UNCHANGED past
    \/ (\E h \in Suspended, ok \in BOOLEAN : CallbackProfile(h, ok)) /\ UNCHANGED past
    \/ (\E h \in Suspended, ok \in BOOLEAN : BrowsePage(h, ok)) /\ UNCHANGED past
    \/ (\E h \in Suspended, ok \in BOOLEAN : BrowseStats(h, ok)) /\ UNCHANGED past

SpecBrowse == BrowseInit /\ [][BrowseNext]_vars

(***************************************************************************)
(* Recategorization: a user with two saved ideas and up to two learned     *)
(* categories, some of whose names hold colons, presses Recategorize on an *)
(* idea (or on one that is gone) and then one of the choices.              *)
(***************************************************************************)
LearnedNames == {<<"Business">>, <<"Health">>, <<"a", ":", "b">>, <<":">>, <<"x", ":">>}

RecatIds == {"i2", "i3"}

RecatChoices == LearnedNames \cup {<<"Product">>}

RecatPayloads == {<<"recat", ":", id>> : id \in RecatIds} \cup {SetcatPayload(id, cat) : id \in RecatIds, cat \in RecatChoices}

RecatInit ==
    /\ call = IdleCall
    /\ userStates = << >>
    /\ ideas = SavedIdeas(2)
    /\ \E learned \in {L \in SUBSET LearnedNames : Cardinality(L) <= 2} : categories = {<<BrowseUser, name>> : name \in learned}
    /\ handlers = EmptyBag
    /\ obs = Obs("init", "", 0, {}, NewHandler("", "none"))
    /\ past = NoPast

RecatNext ==
    \/ (\E u \in Users, data \in RecatPayloads : IdeaCallback(u, data)) /\ UNCHANGED past
    \/ (\E h \in Suspended, ok \in BOOLEAN : CallbackProfile(h, ok)) /\ UNCHANGED past
    \/ (\E h \in Suspended, ok \in BOOLEAN : \E list \in Orderings(getUserCategories(h.user, ok)) : RecatList(h, ok, list)) /\ UNCHANGED past
    \/ (\E h \in Suspended, ok \in BOOLEAN : IdeaUpdated(h, ok)) /\ UNCHANGED past

SpecRecat == RecatInit /\ [][RecatNext]_vars

(***************************************************************************)
(* Listings of edited ideas: a user with two saved ideas edits the         *)
(* transcript of one, recategorizes it, stars it, and opens My Ideas.      *)
(***************************************************************************)
DisplayPayloads == {<<"setcat", ":", "i2", ":", "Health">>, <<"star", ":", "i2">>}

DisplayInit ==
    /\ call = IdleCall
    /\ userStates = << >>
    /\ ideas = SavedIdeas(2)
    /\ categories = {}
    /\ handlers = EmptyBag
    /\ obs = Obs("init", "", 0, {}, NewHandler("", "none"))
    /\ past = NoPast

DisplayNext ==
    \/ (\E u \in Users, raw \in SingleText : TextMessage(u, raw)) /\ UNCHANGED past
    \/ (\E u \in Users : Callback(u, "edit", "i2")) /\ UNCHANGED past
    \/ (\E u \in Users : Callback(u, "menu_ideas", "")) /\ UNCHANGED past
    \/ (\E u \in Users, data \in DisplayPayloads : IdeaCallback(u, data)) /\ UNCHANGED past
    \/ (\E h \in Suspended, ok \in BOOLEAN : CallbackProfile(h, ok)) /\ UNCHANGED past
    \/ (\E h \in Suspended, ok \in BOOLEAN : IdeaUpdated(h, ok)) /\ UNCHANGED past
    \/ (\E h \in Suspended, ok \in BOOLEAN : TextEditProfile(h, ok)) /\ UNCHANGED past
    \/ (\E h \in Suspended, ok \in BOOLEAN : TextEditUpdate(h, ok)) /\ UNCHANGED past
    \/ (\E h \in Suspended : TextEditDone(h)) /\ UNCHANGED past
    \/ (\E h \in Suspended, ok \in BOOLEAN : BrowsePage(h, ok)) /\ UNCHANGED past
    \/ (\E h \in Suspended, ok \in BOOLEAN : BrowseStats(h, ok)) /\ UNCHANGED past

SpecDisplay == DisplayInit /\ [][DisplayNext]_vars

(***************************************************************************)
(* Curation of saved ideas: captures with confirm mode off and, on the     *)
(* first idea, the edit of its transcript, star, archive and the choice of *)
(* a category.                                                             *)
(***************************************************************************)
CuratePayloads == {<<"star", ":", "i1">>, <<"archive", ":", "i1">>, <<"setcat", ":", "i1", ":", "Health">>}

CurateNext ==
    \/ (\E u \in Users, raw \in CaptureTexts : TextMessage(u, raw)) /\ UNCHANGED past
    \/ (\E u \in Users : Callback(u, "edit", "i1")) /\ UNCHANGED past
    \/ (\E u \in Users, data \in CuratePayloads : IdeaCallback(u, data)) /\ UNCHANGED past
    \/ (\E h \in Suspended, ok \in BOOLEAN : CallbackProfile(h, ok)) /\ UNCHANGED past
    \/ (\E h \in Suspended, ok \in BOOLEAN : IdeaUpdated(h, ok)) /\ UNCHANGED past
    \/ (\E h \in Suspended, ok \in BOOLEAN : TextEditProfile(h, ok)) /\ UNCHANGED past
    \/ (\E h \in Suspended, ok \in BOOLEAN : TextEditUpdate(h, ok)) /\ UNCHANGED past
    \/ (\E h \in Suspended : TextEditDone(h)) /\ UNCHANGED past
    \/ (\E h \in Suspended, ok \in BOOLEAN : TextCaptureProfile(h, ok)) /\ UNCHANGED past
    \/ (\E h \in Suspended, ok \in BOOLEAN, resps \in ResponseLists(CaptureCategorizeResponses) : SaveCategories(h, ok, resps)) /\ UNCHANGED past
    \/ (\E h \in Suspended, ok \in BOOLEAN : SaveInsert(h, ok)) /\ UNCHANGED past
    \/ (\E h \in Suspended, ok \in CountOutcomes : SaveCount(h, ok)) /\ UNCHANGED past

SpecCurate == Init /\ [][CurateNext]_vars

(***************************************************************************)
(* Two users over the shared tables: /recent, /category and searches, with *)
(* the Archive button of two ideas.                                        *)
(***************************************************************************)
Chatters == {"u1", "u2"}

FetchQueries == {<<"a">>, <<"B">>}

FetchCategories == {<<>>, <<"business">>, <<"%">>, <<"Health">>}

ArchivePayloads == {<<"archive", ":", "i1">>, <<"archive", ":", "i2">>}

\* Three saved ideas: two of the first user, one of the second.
SharedIdeas == [SavedIdeas(3) EXCEPT ![2].user_id = "u2", ![3].transcript = <<"A", "b">>, ![3].category = "Health"]

SharedInit ==
    /\ call = IdleCall
    /\ userStates = << >>
    /\ ideas = SharedIdeas
    /\ categories = {}
    /\ handlers = EmptyBag
    /\ obs = Obs("init", "", 0, {}, NewHandler("", "none"))
    /\ past = NoPast

FetchNext ==
    \/ (\E u \in Chatters : FetchCommand(u, "recent", <<>>)) /\ UNCHANGED past
    \/ (\E u \in Chatters, name \in FetchCategories : FetchCommand(u, "category", name)) /\ UNCHANGED past
    \/ (\E h \in Suspended, ok \in BOOLEAN : Fetched(h, ok)) /\ UNCHANGED past
    \/ (\E u \in Chatters : Command(u, "search")) /\ UNCHANGED past
    \/ (\E u \in Chatters, raw \in FetchQueries : StateOf(u).pendingSearch /\ TextMessage(u, raw)) /\ UNCHANGED past
    \/ (\E h \in Suspended, ok \in BOOLEAN : SearchDone(h, ok)) /\ UNCHANGED past
    \/ (\E u \in Chatters, data \in ArchivePayloads : IdeaCallback(u, data)) /\ UNCHANGED past
    \/ (\E h \in Suspended, ok \in BOOLEAN : CallbackProfile(h, ok)) /\ UNCHANGED past
    \/ (\E h \in Suspended, ok \in BOOLEAN : IdeaUpdated(h, ok)) /\ UNCHANGED past

SpecFetch == SharedInit /\ [][FetchNext]_vars

(***************************************************************************)
(* Two users at once: commands, text and voice messages and button presses *)
(* of both, their handlers interleaved.                                    *)
(***************************************************************************)
PairCallbacks == {"settings_pause", "confirm_discard", "menu_search"}

PairTranscribeResponses == {SdkThrow, SdkText(<<"a">>)}

\* Both users have started the bot and switched confirm mode on.
PairInit ==
    /\ call = IdleCall
    /\ userStates = [u \in Chatters |-> ToggleConfirm(EmptyState)]
    /\ ideas = <<>>
    /\ categories = {}
    /\ handlers = EmptyBag
    /\ obs = Obs("init", "", 0, {}, NewHandler("", "none"))
    /\ past = NoPast

PairNext ==
    \/ (\E u \in Chatters, raw \in SingleText : TextMessage(u, raw)) /\ UNCHANGED past
    \/ (\E u \in Chatters : VoiceMessage(u, MAX_VOICE_DURATION_SECONDS)) /\ UNCHANGED past
    \/ (\E u \in Chatters, cmd \in Commands : Command(u, cmd)) /\ UNCHANGED past
    \/ (\E u \in Chatters, data \in PairCallbacks : Callback(u, data, "")) /\ UNCHANGED past
    \/ (\E h \in Suspended, ok \in BOOLEAN : SearchDone(h, ok)) /\ UNCHANGED past
    \/ (\E h \in Suspended, ok \in BOOLEAN : TextCaptureProfile(h, ok)) /\ UNCHANGED past
    \/ (\E h \in Suspended, ok \in BOOLEAN, resps \in ResponseLists(PairTranscribeResponses) : VoiceProfile(h, ok, resps)) /\ UNCHANGED past
    \/ (\E h \in Suspended, ok \in BOOLEAN : CallbackProfile(h, ok)) /\ UNCHANGED past
    \/ (\E h \in Suspended, ok \in BOOLEAN : SettingsSynced(h, ok)) /\ UNCHANGED past

SpecPair == PairInit /\ [][PairNext]_vars

(***************************************************************************)
(* One event at a time: a user in confirm mode whose messages and Save     *)
(* presses each arrive after the handler before has returned.              *)
(***************************************************************************)
SerialNext ==
    \/ (\E u \in Users, raw \in CaptureTexts : handlers = EmptyBag /\ TextMessage(u, raw)) /\ Remember(DraftsPast)
    \/ (\E u \in Users : handlers = EmptyBag /\ Callback(u, "confirm_save", "")) /\ Remember(DraftsPast)
    \/ (\E h \in Suspended, ok \in BOOLEAN : TextCaptureProfile(h, ok)) /\ Remember(DraftsPast)
    \/ (\E h \in Suspended, ok \in BOOLEAN : CallbackProfile(h, ok)) /\ Remember(DraftsPast)
    \/ (\E h \in Suspended : ConfirmSaveAnswered(h)) /\ Remember(DraftsPast)
    \/ (\E h \in Suspended, ok \in BOOLEAN, resps \in ResponseLists(CaptureCategorizeResponses) : SaveCategories(h, ok, resps)) /\ Remember(DraftsPast)
    \/ (\E h \in Suspended, ok \in BOOLEAN : SaveInsert(h, ok)) /\ Remember(DraftsPast)
    \/ (\E h \in Suspended, ok \in CountOutcomes : SaveCount(h, ok)) /\ Remember(DraftsPast)
    \/ (\E h \in Suspended : SaveReply(h)) /\ Remember(DraftsPast)

SpecSerial == PairInit /\ [][SerialNext]_vars

(***************************************************************************)
(* The chain on its own: calls of the three operations over every chain of *)
(* at most MaxProviders providers and every response of each provider.     *)
(***************************************************************************)
ChainInit == BotInit

\* AIServiceWithFallback.transcribe / categorize / generateInsights
Transcribe == \E ps \in ProviderLists : call.status # "running" /\ call' = ChainStart("transcribe", ps)

Categorize == \E ps \in ProviderLists : call.status # "running" /\ call' = ChainStart("categorize", ps)

GenerateInsights == \E ps \in ProviderLists : call.status # "running" /\ call' = ChainStart("generateInsights", ps)

ProviderSettles ==
    /\ call.status = "running"
    /\ \E resp \in ResponsesOf(call.op) :
          call' = ChainSettle(call, ProviderOp(call.op, call.idx, call.providers[call.idx], resp))

ChainNext ==
    \/ Transcribe /\ UNCHANGED <<userStates, ideas, categories, handlers, obs, past>>
    \/ Categorize /\ UNCHANGED <<userStates, ideas, categories, handlers, obs, past>>
    \/ GenerateInsights /\ UNCHANGED <<userStates, ideas, categories, handlers, obs, past>>
    \/ ProviderSettles /\ UNCHANGED <<userStates, ideas, categories, handlers, obs, past>>

SpecChain == ChainInit /\ [][ChainNext]_vars

(***************************************************************************)
(* Claims about the provider chain (checked under SpecChain).              *)
(***************************************************************************)
UpTo(n) == [i \in 1..n |-> i]

WellFormedCategory(v) == v.kind = "object" /\ CategoryFields \subseteq v.has

\* C1: when providers 1..k-1 fail and provider k succeeds, the call returns
\* exactly provider k's value, raises no error, and no provider after k is invoked.
C1_FirstSuccessReturned ==
    \A k \in 1..Len(call.hist) :
        call.hist[k].ok =>
            /\ k = Len(call.hist)
            /\ \A i \in 1..(k - 1) : ~call.hist[i].ok
            /\ call.status = "returned"
            /\ call.result = call.hist[k].value
            /\ call.error = NoError
            /\ call.invoked = UpTo(k)
            /\ call.inflight = {}

C1_Witness ==
    /\ call.status = "returned"
    /\ Len(call.hist) = 2
    /\ Len(call.providers) = 3
    /\ call.op = "categorize"

\* C2: when all N >= 1 providers fail, the call fails and the error raised is the
\* failure of the last provider in the configured order.
C2_AllFailRaisesLast ==
    LET n == Len(call.providers)
    IN  /\ (call.status = "thrown" /\ n >= 1) =>
              /\ Len(call.hist) = n
              /\ \A i \in 1..n : ~call.hist[i].ok
              /\ call.error = call.hist[n].error
              /\ call.error.by = n
        /\ (n >= 1 /\ Len(call.hist) = n /\ \A i \in 1..n : ~call.hist[i].ok) => call.status = "thrown"

C2_Witness ==
    /\ call.status = "thrown"
    /\ Len(call.providers) = 3
    /\ call.hist[1].error.msg # call.hist[3].error.msg

\* C3: providers are invoked one at a time in the configured order, each at most
\* once, and provider i+1 only after provider i's invocation has ended in a failure.
C3_SequentialInOrder ==
    /\ call.invoked = UpTo(Len(call.invoked))
    /\ Cardinality(call.inflight) <= 1
    /\ call.inflight \subseteq {Len(call.invoked)}
    /\ Len(call.hist) = Len(call.invoked) - Cardinality(call.inflight)
    /\ \A i \in 1..(Len(call.invoked) - 1) : i <= Len(call.hist) /\ ~call.hist[i].ok
    /\ call.status = "running" => call.inflight = {call.idx}

C3_Witness ==
    /\ call.status = "running"
    /\ call.invoked = <<1, 2, 3>>
    /\ call.inflight = {3}

\* C4: a malformed categorization response (unparsable, or parsed but lacking
\* category, confidence or tags) is a failure of its provider and is never
\* returned to the caller as a success.
C4_MalformedIsFailure ==
    call.op = "categorize" =>
        /\ \A k \in 1..Len(call.hist) : call.hist[k].ok => WellFormedCategory(call.hist[k].value)
        /\ call.status = "returned" => WellFormedCategory(call.result)

(***************************************************************************)
(* Claims about the routing of messages (checked under SpecRouting).  A    *)
(* step is told by obs'; the state before it is the unprimed one.          *)
(***************************************************************************)
StateIn(us, u) == IF u \in DOMAIN us THEN us[u] ELSE EmptyState

\* The handler a step has started and left suspended at pc, if it has.
Started(u, pc) ==
    \E h \in BagToSet(handlers') :
        /\ h.user = u /\ h.pc = pc /\ h.text = obs'.text
        /\ handlers' = handlers (+) SetToBag({h})

\* The step changes nothing of u's conversation state.
StateKept(u) == StateIn(userStates', u) = StateIn(userStates, u)

\* The calls that categorize, transcribe, or read or write ideas and categories.
IdeaCalls == {"categorize", "transcribe", "createIdea", "updateIdea", "getUserCategories", "searchIdeas"}

RulePriority == <<"edit", "search", "question", "paused", "capture">>

RuleGuard(rule, st, text) ==
    CASE rule = "edit" -> st.pendingEdit.set
      [] rule = "search" -> st.pendingSearch
      [] rule = "question" -> text # <<>> /\ Head(text) = "?"
      [] rule = "paused" -> st.paused
      [] OTHER -> TRUE

FirstRule(st, text) ==
    RulePriority[CHOOSE i \in 1..Len(RulePriority) :
                     /\ RuleGuard(RulePriority[i], st, text)
                     /\ \A j \in 1..(i - 1) : ~RuleGuard(RulePriority[j], st, text)]

\* What each rule does on the arrival of the message.
RuleRan(rule, u) ==
    /\ obs'.step = "text_" \o rule
    /\ CASE rule = "edit" -> Started(u, "te_profile") /\ StateKept(u)
         [] rule = "search" -> Started(u, "search") /\ StateIn(userStates', u) = [StateIn(userStates, u) EXCEPT !.pendingSearch = FALSE]
         [] rule = "question" -> handlers' = handlers /\ obs'.replies = 1 /\ obs'.calls = {} /\ StateKept(u)
         [] rule = "paused" -> handlers' = handlers /\ obs'.replies = 0 /\ obs'.calls = {} /\ StateKept(u)
         [] OTHER -> Started(u, "tc_profile") /\ obs'.replies = 1 /\ StateKept(u)

TextArrivals == {"text_ignored", "text_edit", "text_search", "text_question", "text_paused", "text_capture"}

IsCommandText(text) == text = <<>> \/ Head(text) = "/"

\* C5: a non-command text message is routed by exactly one rule, the first whose
\* guard holds in the order pendingEdit, pendingSearch, '?', paused, capture; no
\* rule of lower priority runs when a guard of higher priority holds.
C5_FirstRuleRoutes ==
    [][\A u \in Users :
          (obs'.user = u /\ obs'.step \in TextArrivals /\ ~IsCommandText(obs'.text)) =>
              \A i \in 1..Len(RulePriority) :
                  RuleRan(RulePriority[i], u) <=> (RulePriority[i] = FirstRule(StateIn(userStates, u), obs'.text))]_vars

\* A question sent by a paused user with an edit and a search pending went to the edit.
C5_Witness ==
    /\ obs.step = "text_edit"
    /\ obs.text = <<"?", "a">>
    /\ StateIn(userStates, obs.user).pendingSearch
    /\ StateIn(userStates, obs.user).paused

MessageArrivals == TextArrivals \cup {"voice_paused", "voice_too_long", "voice_capture"}

\* The step is silent and without effect: no reply, no provider call, no
\* persistence call, no handler left running, no change of u's state.
Dropped(u) == obs'.replies = 0 /\ obs'.calls = {} /\ handlers' = handlers /\ StateKept(u) /\ ideas' = ideas /\ categories' = categories

\* C6 as stated: whatever else is pending, a text or voice message of a paused user
\* produces no reply, no provider call, no persistence call and no state change.
C6_PausedDropsEverything ==
    [][\A u \in Users :
          (obs'.user = u /\ obs'.step \in MessageArrivals /\ StateIn(userStates, u).paused) => Dropped(u)]_vars

\* C6, amended: a paused user's voice message, and a paused user's text message that
\* arrives with no edit and no search pending and does not start with '?', produces
\* no reply, no provider call, no persistence call and no state change.
C6_PausedDropsCaptures ==
    [][\A u \in Users :
          LET st == StateIn(userStates, u)
              voice == obs'.origin = "voice"
              plain == obs'.origin = "text" /\ ~st.pendingEdit.set /\ ~st.pendingSearch /\ ~RuleGuard("question", st, obs'.text)
          IN  (obs'.user = u /\ obs'.step \in MessageArrivals /\ st.paused /\ (voice \/ plain)) => Dropped(u)]_vars

\* A paused user's idea text has been dropped.
C6_Witness ==
    /\ obs.step = "text_paused"
    /\ obs.text = <<"a">>
    /\ StateIn(userStates, obs.user).paused
    /\ ~StateIn(userStates, obs.user).pendingEdit.set

\* C15: a text message that arrives with pendingSearch set and no pendingEdit is
\* used as the query of a search; pendingSearch is false from its arrival on,
\* whether the search succeeds or fails, and the message is neither stored as a
\* draft nor persisted as an idea.
C15_SearchConsumesMessage ==
    [][\A u \in Users :
          LET st == StateIn(userStates, u)
              arrives == obs'.step \in TextArrivals /\ ~IsCommandText(obs'.text) /\ st.pendingSearch /\ ~st.pendingEdit.set
          IN  (obs'.user = u /\ obs'.origin = "text") =>
                  /\ arrives =>
                        /\ obs'.step = "text_search"
                        /\ Started(u, "search")
                        /\ StateIn(userStates', u) = [st EXCEPT !.pendingSearch = FALSE]
                        /\ obs'.calls \cap IdeaCalls = {}
                        /\ ideas' = ideas /\ categories' = categories
                  /\ obs'.step \in {"search_done", "search_failed"} =>
                        /\ \E h \in BagToSet(handlers) :
                              /\ h.user = u /\ h.pc = "search" /\ h.text = obs'.text
                              /\ handlers' = handlers (-) SetToBag({h})
                        /\ obs'.calls = {"searchIdeas"}
                        /\ obs'.replies = 1
                        /\ StateKept(u)
                        /\ ideas' = ideas /\ categories' = categories]_vars

\* A search has failed and its flag is down.
C15_Witness ==
    /\ obs.step = "search_failed"
    /\ obs.text = <<"a">>
    /\ ~StateIn(userStates, obs.user).pendingSearch
    /\ ~StateIn(userStates, obs.user).pendingIdea.set

\* C16: a text message starting with '?' that arrives with no pendingEdit and no
\* pendingSearch gets the guidance reply, also when the user is paused; it starts
\* no handler work, so it is never persisted or stored as a draft and triggers no
\* provider call, and it leaves every field of the conversation state unchanged.
C16_QuestionOnlyReplies ==
    [][\A u \in Users :
          LET st == StateIn(userStates, u)
          IN  (obs'.user = u /\ obs'.step \in TextArrivals /\ StartsWith(obs'.text, "?") /\ ~st.pendingEdit.set /\ ~st.pendingSearch) =>
                  /\ obs'.step = "text_question"
                  /\ obs'.replies = 1
                  /\ obs'.calls = {}
                  /\ handlers' = handlers
                  /\ StateKept(u)
                  /\ ideas' = ideas /\ categories' = categories]_vars

\* A paused user's question has been answered.
C16_Witness ==
    /\ obs.step = "text_question"
    /\ obs.replies = 1
    /\ StateIn(userStates, obs.user).paused
    /\ ~StateIn(userStates, obs.user).pendingEdit.set
    /\ ~StateIn(userStates, obs.user).pendingSearch

(***************************************************************************)
(* Claims about captures and their confirmation (checked under Spec).      *)
(***************************************************************************)
\* The step is one of a handler of u that was suspended at pc `from`: it is now
\* suspended at pc `to` with the same update, or it has ended.
Moved(u, from, to) ==
    \E h \in BagToSet(handlers), h2 \in BagToSet(handlers') :
        /\ h.user = u /\ h.origin = obs'.origin /\ h.pc = from
        /\ h2.user = u /\ h2.origin = h.origin /\ h2.pc = to
        /\ handlers' = (handlers (-) SetToBag({h})) (+) SetToBag({h2})

Ended(u, from) ==
    \E h \in BagToSet(handlers) :
        /\ h.user = u /\ h.origin = obs'.origin /\ h.pc = from
        /\ handlers' = handlers (-) SetToBag({h})

\* The handlers of a bag that wait at pc on behalf of a Save press.
SavesAt(b, pc) == BagCardinality([h \in {x \in BagToSet(b) : x.origin = "confirm_save" /\ x.pc = pc} |-> b[h]])

DraftKept(u) == StateIn(userStates', u).pendingIdea = StateIn(userStates, u).pendingIdea

CategoryNames(u) == {c[2] : c \in {x \in categories : x[1] = u}}

\* The step appends one row to public.ideas, with these columns.
OneIdeaCreated(u, inputType, transcript, categorization) ==
    /\ Len(ideas') = Len(ideas) + 1
    /\ SubSeq(ideas', 1, Len(ideas)) = ideas
    /\ LET row == ideas'[Len(ideas')]
       IN  /\ row.user_id = u
           /\ row.original_input_type = inputType
           /\ row.transcript = transcript
           /\ row.category = categorization.category
           /\ row.confidence_score = categorization.confidence
           /\ row.tags = categorization.tags
           /\ \A j \in 1..Len(ideas) : ideas[j].id # row.id

\* A capture reaches the test of confirmMode: a text after getOrCreateProfile, a
\* voice message with its non-blank transcript.
CaptureDecided(u) == obs'.user = u /\ obs'.origin \in {"text", "voice"} /\ obs'.step \in {"draft_stored", "save_start"}

\* C7: a capture handled with confirmMode on makes {text, kind} of its message the
\* pending draft, calls neither categorize nor createIdea, and ends: it creates
\* no idea, which is left to a Save press.
C7_ConfirmModeStoresDraft ==
    [][\A u \in Users :
          (CaptureDecided(u) /\ StateIn(userStates, u).confirmMode) =>
              /\ obs'.step = "draft_stored"
              /\ Trim(obs'.text) # <<>>
              /\ StateIn(userStates', u) = [StateIn(userStates, u) EXCEPT !.pendingIdea = [set |-> TRUE, text |-> obs'.text, inputType |-> obs'.origin]]
              /\ \E h \in BagToSet(handlers) :
                    /\ h.user = u /\ h.origin = obs'.origin /\ h.pc \in {"tc_profile", "v_profile"}
                    /\ h.origin = "text" => h.text = obs'.text
                    /\ handlers' = handlers (-) SetToBag({h})
              /\ obs'.calls \cap {"categorize", "createIdea"} = {}
              /\ ideas' = ideas /\ categories' = categories]_vars

\* A voice message's transcript is the pending draft and no idea exists.
C7_Witness ==
    /\ obs.step = "draft_stored"
    /\ obs.origin = "voice"
    /\ StateIn(userStates, obs.user).pendingIdea = [set |-> TRUE, text |-> <<"a">>, inputType |-> "voice"]
    /\ ideas = <<>>

CaptureSteps == {"text_capture", "voice_capture", "save_start", "categorized", "categorized_blind", "categorize_failed", "idea_created", "capture_done", "handler_failed"}

\* C8: a capture handled with confirmMode off is categorized with the names of the
\* user's categories and, the chain returning a category result and the insert
\* succeeding, creates exactly one idea: transcript and kind of the message,
\* category, confidence and tags as the chain returned them, whether or not the
\* category is one of the user's; the pending draft is not touched.
C8_AutoSaveCreatesIdea ==
    [][\A u \in Users :
          (obs'.user = u /\ obs'.origin \in {"text", "voice"} /\ obs'.step \in CaptureSteps) =>
              /\ DraftKept(u)
              /\ (CaptureDecided(u) /\ ~StateIn(userStates, u).confirmMode) =>
                    /\ obs'.step = "save_start"
                    /\ obs'.inputType = obs'.origin
                    /\ \E h \in BagToSet(handlers), h2 \in BagToSet(handlers') :
                          /\ h.user = u /\ h.origin = obs'.origin /\ h.pc \in {"tc_profile", "v_profile"}
                          /\ h.origin = "text" => h.text = obs'.text
                          /\ h2 = [h EXCEPT !.pc = "save_cats", !.text = obs'.text, !.inputType = obs'.origin]
                          /\ handlers' = (handlers (-) SetToBag({h})) (+) SetToBag({h2})
              /\ obs'.step = "categorized" =>
                    /\ obs'.cats = CategoryNames(u)
                    /\ \E h \in BagToSet(handlers) :
                          /\ h.user = u /\ h.pc = "save_cats" /\ h.text = obs'.text /\ h.inputType = obs'.inputType
                          /\ handlers' = (handlers (-) SetToBag({h})) (+) SetToBag({[h EXCEPT !.pc = "save_insert", !.categorization = obs'.categorization]})
              /\ (obs'.step = "idea_created" /\ WellFormedCategory(obs'.categorization)) =>
                    /\ OneIdeaCreated(u, obs'.origin, obs'.text, obs'.categorization)
                    /\ \E h \in BagToSet(handlers) :
                          /\ h.user = u /\ h.pc = "save_insert" /\ h.origin = obs'.origin
                          /\ h.text = obs'.text /\ h.inputType = obs'.origin /\ h.categorization = obs'.categorization
                    /\ Moved(u, "save_insert", "save_count")
              /\ obs'.step # "idea_created" => ideas' = ideas]_vars

\* A second idea has been created with a category the user did not have.
C8_Witness ==
    /\ obs.step = "idea_created"
    /\ obs.origin = "voice"
    /\ Len(ideas) = 2
    /\ ideas[2].category = "Gardening"
    /\ ideas[2].tags = <<"plants">>
    /\ CategoryNames(obs.user) = {"Business"}

\* C9: a Save pressed while a draft is pending saves the draft: the chain returning
\* a category result and the insert succeeding, exactly one idea is created, with
\* the draft's text and kind; the handler clears the draft when saveIdea has
\* returned, after the insert, and at no other moment.
C9_SavePersistsThenClears ==
    [][\A u \in Users :
          (obs'.user = u /\ obs'.origin = "confirm_save") =>
              LET st == StateIn(userStates, u)
              IN  /\ obs'.step = "save_pressed" => st.pendingIdea.set /\ Moved(u, "cb_profile", "cs_answer")
                  /\ obs'.step = "callback_unhandled" => ~st.pendingIdea.set /\ Ended(u, "cb_profile")
                  /\ obs'.step = "save_start" =>
                        /\ st.pendingIdea = [set |-> TRUE, text |-> obs'.text, inputType |-> obs'.inputType]
                        /\ \E h \in BagToSet(handlers) :
                              /\ h.user = u /\ h.origin = "confirm_save" /\ h.pc = "cs_answer"
                              /\ handlers' = (handlers (-) SetToBag({h})) (+) SetToBag({[h EXCEPT !.pc = "save_cats", !.text = obs'.text, !.inputType = obs'.inputType]})
                  /\ obs'.step \in {"categorized", "categorized_blind"} =>
                        \E h \in BagToSet(handlers) :
                            /\ h.user = u /\ h.origin = "confirm_save" /\ h.pc = "save_cats" /\ h.text = obs'.text /\ h.inputType = obs'.inputType
                            /\ handlers' = (handlers (-) SetToBag({h})) (+) SetToBag({[h EXCEPT !.pc = "save_insert", !.categorization = obs'.categorization]})
                  /\ (obs'.step = "idea_created" /\ WellFormedCategory(obs'.categorization)) =>
                        /\ OneIdeaCreated(u, obs'.inputType, obs'.text, obs'.categorization)
                        /\ \E h \in BagToSet(handlers) :
                              /\ h.user = u /\ h.origin = "confirm_save" /\ h.pc = "save_insert"
                              /\ h.text = obs'.text /\ h.inputType = obs'.inputType /\ h.categorization = obs'.categorization
                        /\ Moved(u, "save_insert", "save_count")
                  /\ obs'.step # "idea_created" => ideas' = ideas
                  /\ (obs'.step = "summary_sent" \/ SavesAt(handlers', "save_reply") > SavesAt(handlers, "save_reply")) =>
                        /\ obs'.step = "summary_sent"
                        /\ Moved(u, "save_count", "save_reply")
                  /\ SavesAt(handlers', "save_count") > SavesAt(handlers, "save_count") => obs'.step = "idea_created"
                  /\ obs'.step = "save_done" =>
                        /\ Ended(u, "save_reply")
                        /\ StateIn(userStates', u) = [st EXCEPT !.pendingIdea = NoIdea]
                  /\ obs'.step # "save_done" => StateKept(u)]_vars

\* A Save has ended: the draft's text is in an idea and no draft is pending.
C9_Witness ==
    /\ obs.step = "save_done"
    /\ obs.origin = "confirm_save"
    /\ ~StateIn(userStates, obs.user).pendingIdea.set
    /\ Len(ideas) = 1
    /\ ideas[1].transcript = <<"a">>
    /\ ideas[1].original_input_type = "voice"

\* C10: Edit pressed on a confirmation prompt sets pendingEdit to the target "new"
\* and keeps the pending draft, text and kind; the handler makes no categorize call
\* and no call that reads or writes ideas.
C10_EditArmsNewKeepsDraft ==
    [][\A u \in Users :
          (obs'.user = u /\ obs'.origin = "confirm_edit") =>
              /\ DraftKept(u)
              /\ ideas' = ideas /\ categories' = categories
              /\ obs'.calls \cap IdeaCalls = {}
              /\ obs'.step = "edit_pressed" => Moved(u, "cb_profile", "ce_prompt") /\ StateKept(u)
              /\ obs'.step = "edit_new_armed" =>
                    /\ Ended(u, "ce_prompt")
                    /\ StateIn(userStates', u) = [StateIn(userStates, u) EXCEPT !.pendingEdit = [set |-> TRUE, ideaId |-> "new"]]
              /\ obs'.step \notin {"callback", "edit_pressed", "edit_new_armed"} => obs'.step = "handler_failed" /\ StateKept(u)]_vars

\* Edit has been pressed on the prompt of a draft: the edit is armed, the draft is there.
C10_Witness ==
    /\ obs.step = "edit_new_armed"
    /\ StateIn(userStates, obs.user).pendingEdit = [set |-> TRUE, ideaId |-> "new"]
    /\ StateIn(userStates, obs.user).pendingIdea = [set |-> TRUE, text |-> <<"a">>, inputType |-> "text"]

(***************************************************************************)
(* Claims about drafts and their edits (checked under SpecDrafts).         *)
(***************************************************************************)
\* The pending-edit branch of a text message acts: after getOrCreateProfile it
\* replaces the draft's text or calls updateIdea.
EditDecided(u) == obs'.user = u /\ obs'.origin = "text" /\ obs'.step \in {"edit_draft", "edit_update"}

\* C11: a text message handled while pendingEdit has the target "new" replaces the
\* text of the pending draft (the input kind is kept), clears pendingEdit, presents
\* the Save/Edit/Discard prompt again and issues no persistence call, neither an
\* update nor a create.
C11_EditNewReplacesDraft ==
    [][\A u \in Users :
          LET st == StateIn(userStates, u)
          IN  (EditDecided(u) /\ st.pendingEdit = PendingEdit("new")) =>
                  /\ obs'.step = "edit_draft"
                  /\ st.pendingIdea.set
                  /\ StateIn(userStates', u) = [st EXCEPT !.pendingIdea.text = obs'.text, !.pendingEdit = NoEdit]
                  /\ obs'.replies = 1
                  /\ obs'.calls \cap IdeaCalls = {}
                  /\ ideas' = ideas
                  /\ Ended(u, "te_profile")]_vars

\* A Save handler of u passes the draft it has read to createIdea, or the row
\* of that call is inserted.
SavePersists(u) == obs'.user = u /\ obs'.origin = "confirm_save" /\ obs'.step \in {"categorized", "categorized_blind", "idea_created"}

\* C13: Discard clears the pending draft and issues no persistence call, and no
\* idea is ever created from a discarded draft, whatever the interleaving with the
\* user's other events.  Stated on the first draft of a user: as long as it is the
\* only draft stored so far and no idea exists, only a Discard can have cleared
\* it, so a Save that persists it must find it still pending.
C13_DiscardNeverPersists ==
    [][\A u \in Users :
          /\ (obs'.user = u /\ obs'.step = "discarded") =>
                /\ ~StateIn(userStates', u).pendingIdea.set
                /\ obs'.calls \cap IdeaCalls = {}
                /\ ideas' = ideas
          /\ (SavePersists(u) /\ past.stored = "one" /\ ideas = <<>>) => StateIn(userStates, u).pendingIdea.set]_vars

(***************************************************************************)
(* Claims about discarded drafts (checked under SpecDiscard).              *)
(***************************************************************************)
\* C14: after a Discard the next capture in confirm mode makes text and kind of
\* its own message the pending draft, and a Save persists the draft it finds
\* with that text and kind; the Discard leaves nothing of the draft in the state,
\* so neither the text nor the kind of the discarded draft can appear in the new
\* draft or in the record.
C14_FreshDraftAfterDiscard ==
    [][\A u \in Users :
          LET st == StateIn(userStates, u)
              d == past.discarded
          IN  /\ (obs'.user = u /\ obs'.step = "discarded") => StateIn(userStates', u) = [st EXCEPT !.pendingIdea = NoIdea]
              /\ (obs'.user = u /\ d.set /\ ~st.pendingIdea.set /\ obs'.step = "draft_stored") =>
                    /\ StateIn(userStates', u).pendingIdea = [set |-> TRUE, text |-> obs'.text, inputType |-> obs'.origin]
                    /\ obs'.text # d.text => StateIn(userStates', u).pendingIdea.text # d.text
                    /\ obs'.origin # d.inputType => StateIn(userStates', u).pendingIdea.inputType # d.inputType
              /\ (obs'.user = u /\ d.set /\ obs'.origin = "confirm_save" /\ obs'.step = "save_start") =>
                    /\ st.pendingIdea = [set |-> TRUE, text |-> obs'.text, inputType |-> obs'.inputType]
                    /\ \E h \in BagToSet(handlers) :
                          /\ h.user = u /\ h.origin = "confirm_save" /\ h.pc = "cs_answer"
                          /\ handlers' = (handlers (-) SetToBag({h})) (+) SetToBag({[h EXCEPT !.pc = "save_cats", !.text = st.pendingIdea.text, !.inputType = st.pendingIdea.inputType]})
              /\ (obs'.user = u /\ d.set /\ obs'.origin = "confirm_save" /\ obs'.step = "idea_created") =>
                    /\ Len(ideas') = Len(ideas) + 1
                    /\ ideas'[Len(ideas')].transcript = obs'.text
                    /\ ideas'[Len(ideas')].original_input_type = obs'.inputType
                    /\ \E h \in BagToSet(handlers) :
                          h.user = u /\ h.origin = "confirm_save" /\ h.pc = "save_insert" /\ h.text = obs'.text /\ h.inputType = obs'.inputType]_vars

\* A voice draft has been discarded, and the draft of a later text has been saved:
\* the only record holds the text and the kind of the text message.
C14_Witness ==
    /\ past.discarded = [set |-> TRUE, text |-> <<"a">>, inputType |-> "voice"]
    /\ obs.step = "save_done"
    /\ Len(ideas) = 1
    /\ ideas[1].transcript = <<"b">>
    /\ ideas[1].original_input_type = "text"
    /\ ~StateIn(userStates, obs.user).pendingIdea.set

(***************************************************************************)
(* Claims about the edit of a saved idea (checked under SpecEdit).         *)
(***************************************************************************)
TextEditSteps == {"text_edit", "edit_update", "edit_updated", "edit_done", "edit_failed"}

\* The step is the settling of the updateIdea a text handler of u had issued: the
\* row the handler targets, and no other, has the message text as its
\* transcript_edited; every other column and row is as before.
WroteEdited(u) ==
    \E h \in BagToSet(handlers) :
        /\ h.user = u /\ h.origin = "text" /\ h.pc = "te_update" /\ h.text = obs'.text
        /\ \/ handlers' = handlers (-) SetToBag({h})
           \/ handlers' = (handlers (-) SetToBag({h})) (+) SetToBag({[h EXCEPT !.pc = "te_delmsg"]})
        /\ \E i \in 1..Len(ideas) :
              /\ ideas[i].id = h.ideaId
              /\ ideas[i].user_id = u
              /\ ideas' = [ideas EXCEPT ![i] = [@ EXCEPT !.transcript_edited = [set |-> TRUE, v |-> obs'.text]]]

\* C12: a text message handled while pendingEdit targets an existing record issues
\* exactly one update, which writes the message text to the edited-transcript field
\* of that record and leaves its transcript, its category and every other record
\* as they are; pendingEdit is cleared, no idea is created and the pending draft
\* is not touched.
C12_EditUpdatesRecord ==
    [][\A u \in Users :
          (obs'.user = u /\ obs'.origin = "text" /\ obs'.step \in TextEditSteps) =>
              LET st == StateIn(userStates, u)
                  settled == obs'.step = "edit_updated" \/ (obs'.step = "edit_done" /\ Ended(u, "te_update"))
              IN  /\ DraftKept(u)
                  /\ Len(ideas') = Len(ideas)
                  /\ categories' = categories
                  /\ ("updateIdea" \in obs'.calls) <=> (obs'.step = "edit_update")
                  /\ (EditDecided(u) /\ st.pendingEdit.set /\ st.pendingEdit.ideaId # "new") =>
                        /\ obs'.step = "edit_update"
                        /\ obs'.calls = {"updateIdea"}
                        /\ \E h \in BagToSet(handlers) :
                              /\ h.user = u /\ h.pc = "te_profile" /\ h.text = obs'.text
                              /\ handlers' = (handlers (-) SetToBag({h})) (+) SetToBag({[h EXCEPT !.pc = "te_update", !.ideaId = st.pendingEdit.ideaId]})
                        /\ StateKept(u)
                  /\ settled => WroteEdited(u)
                  /\ ~settled => ideas' = ideas
                  /\ obs'.step = "edit_updated" => StateKept(u)
                  /\ obs'.step = "edit_done" =>
                        /\ Ended(u, "te_update") \/ Ended(u, "te_delmsg")
                        /\ StateIn(userStates', u) = [st EXCEPT !.pendingEdit = NoEdit]]_vars

\* The second of two saved ideas has been edited while a draft was pending: its
\* edited transcript is the message, its transcript and the first idea are as saved.
C12_Witness ==
    /\ obs.step = "edit_done"
    /\ obs.text = <<"b">>
    /\ Len(ideas) = 2
    /\ ideas[2].transcript = <<"a">>
    /\ ideas[2].transcript_edited = [set |-> TRUE, v |-> <<"b">>]
    /\ ~ideas[1].transcript_edited.set
    /\ StateIn(userStates, obs.user).pendingIdea.set
    /\ ~StateIn(userStates, obs.user).pendingEdit.set

(***************************************************************************)
(* Claims about voice messages (checked under SpecVoice).                  *)
(***************************************************************************)
VoiceArrivalSteps == {"voice_paused", "voice_too_long", "voice_capture"}

Digit == <<"0", "1", "2", "3", "4", "5", "6", "7", "8", "9">>

\* d seconds written as minutes, a colon and two digits of seconds.
MinutesAndSeconds(d) == Digit[(d \div 60) + 1] \o ":" \o Digit[((d % 60) \div 10) + 1] \o Digit[((d % 60) % 10) + 1]

VoiceReturnedSteps == {"voice_blank", "draft_stored", "save_start"}

\* C18: when the chain's transcribe returns an empty or blank text, the provider
\* that returned is the last one invoked, the user gets one reply (the capture
\* failure), the handler ends, and the draft, the ideas and the categories are as
\* before: nothing is categorized and nothing is written.
C18_BlankTranscriptStops ==
    [][\A u \in Users :
          (obs'.user = u /\ obs'.origin = "voice" /\ obs'.step \in VoiceReturnedSteps /\ Trim(obs'.text) = <<>>) =>
              /\ obs'.step = "voice_blank"
              /\ obs'.replies = 1
              /\ obs'.calls = {"transcribe"}
              /\ obs'.settled >= 1
              /\ obs'.tried = UpTo(obs'.settled)
              /\ Ended(u, "v_profile")
              /\ StateIn(userStates', u) = StateIn(userStates, u)
              /\ ideas' = ideas
              /\ categories' = categories]_vars

\* The first provider has returned a text of two blanks: the second was not
\* invoked and the draft pending from an earlier note is still there.
C18_Witness ==
    /\ obs.step = "voice_blank"
    /\ obs.text = <<" ", " ">>
    /\ obs.tried = <<1>>
    /\ obs.settled = 1
    /\ StateIn(userStates, obs.user).pendingIdea.set
    /\ StateIn(userStates, obs.user).pendingIdea.text = <<"a">>

(***************************************************************************)
(* Claims about the settings screen (checked under SpecSettings).          *)
(***************************************************************************)
\* The screen for each pair of flags, written out.
ScreenFor(paused, confirmMode) ==
    CASE ~paused /\ ~confirmMode -> "Settings/Capture Mode:Active/Save Mode:Auto-save/Pause Capture/Auto-save: ON/Back to Menu"
      [] ~paused /\ confirmMode -> "Settings/Capture Mode:Active/Save Mode:Ask first/Pause Capture/Auto-save: OFF/Back to Menu"
      [] paused /\ ~confirmMode -> "Settings/Capture Mode:Paused/Save Mode:Auto-save/Resume Capture/Auto-save: ON/Back to Menu"
      [] OTHER -> "Settings/Capture Mode:Paused/Save Mode:Ask first/Resume Capture/Auto-save: OFF/Back to Menu"

\* The flags follow the parity of the toggles pressed since the start, when both
\* were off.
FlagsFollowFlips(st) == st.paused = (past.flips.pause = 1) /\ st.confirmMode = (past.flips.confirm = 1)

SettingsOrigins == {"settings_pause", "settings_confirm"}

\* C19: each press of a toggle flips its flag and nothing else, so that after an
\* even number of presses of a toggle the flag is what it was at first; a settings
\* screen, whenever it is rendered, is the screen of the pair (paused, confirmMode)
\* at that moment, hence the one shown before the first press once both toggles
\* have been pressed an even number of times.
C19_ToggleTwiceRestores ==
    [][\A u \in Users :
          LET st == StateIn(userStates, u)
              st2 == StateIn(userStates', u)
          IN  /\ (obs'.user = u /\ obs'.step = "confirm_toggled") => st2 = [st EXCEPT !.confirmMode = ~st.confirmMode]
              /\ (obs'.user = u /\ obs'.step = "pause_toggled") => st2 = [st EXCEPT !.paused = ~st.paused]
              /\ FlagsFollowFlips(st) /\ (past.flips = NoPast.flips => st.paused = EmptyState.paused /\ st.confirmMode = EmptyState.confirmMode)
              /\ (obs'.user = u /\ obs'.step \in {"settings_rendered", "settings_shown"}) =>
                    /\ obs'.shown = ScreenFor(st2.paused, st2.confirmMode)
                    /\ past'.flips = NoPast.flips => obs'.shown = ScreenFor(FALSE, FALSE)]_vars

\* Confirm mode has been switched on and off again and the screen rendered for
\* the second press is the one of the start.
C19_Witness ==
    /\ obs.step = "settings_rendered"
    /\ obs.origin = "settings_confirm"
    /\ past.flips = NoPast.flips
    /\ handlers = EmptyBag
    /\ obs.shown = SettingsScreen(EmptyState)
    /\ StateIn(userStates, obs.user) = EmptyState

\* C20: when updateProfileSettings fails, the handler ends with the error reply
\* and the conversation state stays as the toggle left it; from then on a text
\* message is dropped exactly when the pause flag is toggled on, and a capture is
\* held as a draft exactly when confirm mode is toggled on.
C20_FailedSyncKeepsToggle ==
    [][\A u \in Users :
          /\ (obs'.user = u /\ obs'.origin \in SettingsOrigins /\ obs'.step = "handler_failed" /\ Ended(u, "set_sync")) =>
                /\ StateIn(userStates', u) = StateIn(userStates, u)
                /\ StateIn(userStates', u).paused = (past'.flips.pause = 1)
                /\ StateIn(userStates', u).confirmMode = (past'.flips.confirm = 1)
          /\ (obs'.user = u /\ past.unsynced # "none" /\ obs'.step \in {"text_paused", "text_capture"}) =>
                (obs'.step = "text_paused") <=> (past.flips.pause = 1)
          /\ (obs'.user = u /\ past.unsynced # "none" /\ obs'.origin = "text" /\ obs'.step \in {"draft_stored", "save_start"}) =>
                (obs'.step = "draft_stored") <=> (past.flips.confirm = 1)]_vars

\* The sync of the pause toggle has failed and the text sent afterwards was
\* dropped as paused.
C20_Witness ==
    /\ obs.step = "text_paused"
    /\ past.unsynced = "settings_pause"
    /\ past.flips.pause = 1
    /\ StateIn(userStates, obs.user).paused

\* C21: a settings handler that has toggled its flag ends by rendering the
\* settings screen of the flags as they then are, also when the sync of the
\* toggle to the profile fails.
C21_ToggleRerenders ==
    [][\A u \in Users :
          (obs'.user = u /\ obs'.origin \in SettingsOrigins /\ Ended(u, "set_sync")) =>
              /\ obs'.step = "settings_rendered"
              /\ obs'.shown = ScreenFor(StateIn(userStates', u).paused, StateIn(userStates', u).confirmMode)]_vars


(***************************************************************************)
(* Claims about the inline idea browser (checked under SpecBrowse).        *)
(***************************************************************************)
Offered(label) == {b.target : b \in {x \in obs'.nav : x.label = label}}

\* The user's ideas a listing counts.
Listed(u) == Cardinality({i \in 1..Len(ideas) : ideas[i].user_id = u /\ ~ideas[i].is_archived})

\* C22: the page of the browser rendered for offset O, from a page of at most 5
\* records and the total the count query returned, offers Next, targeting O+5,
\* exactly when the page holds 5 records and O+5 is below the total, and Prev,
\* targeting O-5, exactly when O is above 0; it offers no other navigation.
C22_BrowseNavigation ==
    [][\A u \in Users :
          (obs'.user = u /\ obs'.step \in {"browse_shown", "browse_empty"}) =>
              /\ \E h \in BagToSet(handlers) :
                    /\ h.user = u /\ h.pc = "browse_stats" /\ handlers' = handlers (-) SetToBag({h})
                    /\ obs'.offset = h.offset
                    /\ obs'.page = Len(h.page)
              /\ obs'.page <= 5
              /\ obs'.total \in {0, Listed(u)}
              /\ {b.label : b \in obs'.nav} \subseteq {"Prev", "Next"}
              /\ Offered("Next") = (IF obs'.page = 5 /\ obs'.offset + 5 < obs'.total THEN {obs'.offset + 5} ELSE {})
              /\ Offered("Prev") = (IF obs'.offset > 0 THEN {obs'.offset - 5} ELSE {})]_vars

\* The second page of eleven ideas: five records, Prev to 0 and Next to 10.
C22_Witness ==
    /\ obs.step = "browse_shown"
    /\ obs.offset = 5
    /\ obs.page = 5
    /\ obs.total = 11
    /\ obs.nav = {[label |-> "Prev", target |-> 0], [label |-> "Next", target |-> 10]}


(***************************************************************************)
(* Claims about recategorization (checked under SpecRecat).                *)
(***************************************************************************)
SeedNames == {<<"Product">>, <<"Business">>, <<"Personal">>, <<"Creative">>, <<"Technical">>, <<"Learning">>}

Learned(u) == {c[2] : c \in {x \in categories : x[1] = u}}

\* C23: the choices shown by the recat action are, each once, the names of the
\* user's categories the query returned (all of them, or none when the query
\* fails) and the six seed names, each button carrying setcat, the idea and the
\* name; a choice that is applied writes its name to category_edited of the idea
\* it names and changes no other column and no other idea.
C23_RecatChoices ==
    [][\A u \in Users :
          /\ (obs'.user = u /\ obs'.step = "recat_shown") =>
                LET labels == {obs'.choices[i].label : i \in DOMAIN obs'.choices}
                IN  /\ labels \in {Learned(u) \cup SeedNames, SeedNames}
                    /\ Len(obs'.choices) = Cardinality(labels)
                    /\ \E h \in BagToSet(handlers) :
                          /\ h.user = u /\ h.pc = "recat_list" /\ handlers' = handlers (-) SetToBag({h})
                          /\ \A i \in DOMAIN obs'.choices :
                                obs'.choices[i].payload = <<"setcat", ":", h.ideaId, ":">> \o obs'.choices[i].label
                    /\ ideas' = ideas
          /\ (obs'.user = u /\ obs'.step = "idea_updated" /\ obs'.origin = "setcat") =>
                \E h \in BagToSet(handlers) :
                    /\ h.user = u /\ h.pc = "ia_update" /\ handlers' = handlers (-) SetToBag({h})
                    /\ \E i \in 1..Len(ideas) :
                          /\ ideas[i].id = h.ideaId
                          /\ ideas' = [ideas EXCEPT ![i] = [@ EXCEPT !.category_edited = [set |-> TRUE, v |-> Concat(h.rest)]]]]_vars

\* The second idea has been given the category "a:b": its original category
\* and the first idea are as saved.
C23_Witness ==
    /\ obs.step = "idea_updated"
    /\ obs.origin = "setcat"
    /\ ideas[2].category_edited = [set |-> TRUE, v |-> "a:b"]
    /\ ideas[2].category = "Business"
    /\ ideas[1] = SavedIdeas(2)[1]

\* C24: the payload the recat action builds for an idea and a category name,
\* colons in the name or not, is parsed into the action setcat, the same idea and
\* the same name, both when the keyboard is built and when a button is pressed.
C24_SetcatRoundTrip ==
    [][/\ obs'.step = "recat_shown" =>
             \A i \in DOMAIN obs'.choices :
                 \E h \in BagToSet(handlers) :
                     /\ h.pc = "recat_list" /\ handlers' = handlers (-) SetToBag({h})
                     /\ ParseIdeaAction(obs'.choices[i].payload) = [action |-> "setcat", ideaId |-> h.ideaId, rest |-> obs'.choices[i].label]
       /\ \A id \in RecatIds, cat \in RecatChoices :
             (obs'.step = "callback" /\ obs'.payload = <<"setcat", ":", id, ":">> \o cat) =>
                 \E h \in BagToSet(handlers') :
                     /\ handlers' = handlers (+) SetToBag({h})
                     /\ h.origin = "setcat" /\ h.ideaId = id /\ h.rest = cat]_vars

\* The button of the category a:b of the second idea has been pressed and the
\* handler holds the name with its colon.
C24_Witness ==
    /\ obs.step = "callback"
    /\ obs.payload = <<"setcat", ":", "i2", ":", "a", ":", "b">>
    /\ \E h \in BagToSet(handlers) : h.origin = "setcat" /\ h.ideaId = "i2" /\ h.rest = <<"a", ":", "b">> /\ h.pc = "cb_profile"


(***************************************************************************)
(* Claims about failures.                                                  *)
(***************************************************************************)
\* The steps at which a handler ends because a call of it has failed.
FailureSteps == {"handler_failed", "edit_failed", "search_failed", "transcribe_failed", "categorize_failed", "browse_failed"}

\* C25: a handler that a failure ends tells the user: the step of the failure
\* sends a reply (the error text, or the answer of the callback query).
C25_FailuresAnswered ==
    [][obs'.step \in FailureSteps => obs'.replies >= 1]_vars


\* C26 as stated: the step at which a failure ends a handler changes no field of
\* the conversation state.
C26_FailureKeepsAll ==
    [][\A u \in Users :
          (obs'.user = u /\ obs'.step \in FailureSteps) => StateIn(userStates', u) = StateIn(userStates, u)]_vars

\* C26, amended: the step at which a failure ends a handler changes no field of
\* the conversation state, except that the catch of the pending-edit branch of
\* the text handler clears pendingEdit; a Save that fails does not clear the
\* pending draft.
C26_FailureKeepsState ==
    [][\A u \in Users :
          (obs'.user = u /\ obs'.step \in FailureSteps) =>
              LET st == StateIn(userStates, u)
              IN  /\ StateIn(userStates', u) = (IF obs'.step = "edit_failed" THEN [st EXCEPT !.pendingEdit = NoEdit] ELSE st)
                  /\ ideas' = ideas
                  /\ (obs'.origin = "confirm_save" /\ st.pendingIdea.set) => StateIn(userStates', u).pendingIdea = st.pendingIdea]_vars

\* The insert of a Save has failed and the draft is still pending.
C26_Witness ==
    /\ obs.step = "handler_failed"
    /\ obs.origin = "confirm_save"
    /\ handlers = EmptyBag
    /\ ideas = <<>>
    /\ StateIn(userStates, obs.user).pendingIdea = PendingIdea(<<"a">>, "text")


(***************************************************************************)
(* Claims about concurrent presses (checked under SpecDrafts).             *)
(***************************************************************************)
\* The Save handlers of u that have passed the insert of their idea.
SavesInserted(u) == {h \in BagToSet(handlers) : h.user = u /\ h.origin = "confirm_save" /\ h.pc \in {"save_count", "save_reply"}}

\* C27: a Save press goes on exactly when a draft is pending, however many other
\* Save presses of the same user are in flight: at the guard after
\* getOrCreateProfile and again when the draft is read after the answer of the
\* callback query; and each Save that reaches createIdea inserts a row of its own.
C27_SavesNotExcluded ==
    [][\A u \in Users :
          LET st == StateIn(userStates, u)
          IN  /\ (obs'.user = u /\ obs'.origin = "confirm_save" /\ Moved(u, "cb_profile", "cs_answer")) => st.pendingIdea.set
              /\ (obs'.user = u /\ obs'.origin = "confirm_save" /\ st.pendingIdea.set /\ obs'.step \in {"save_pressed", "callback_unhandled"}) =>
                    obs'.step = "save_pressed"
              /\ (obs'.user = u /\ obs'.origin = "confirm_save" /\ st.pendingIdea.set
                    /\ (Ended(u, "cs_answer") \/ Moved(u, "cs_answer", "save_cats"))) =>
                    /\ obs'.step = "save_start"
                    /\ obs'.text = st.pendingIdea.text
              /\ (obs'.user = u /\ obs'.origin = "confirm_save" /\ obs'.step = "idea_created") =>
                    /\ Len(ideas') = Len(ideas) + 1
                    /\ ideas'[Len(ideas')].transcript = obs'.text]_vars

\* One draft has been stored in the whole run and two Save handlers, both still
\* in flight, have each inserted an idea with its text.
C27_Witness ==
    /\ past.stored = "one"
    /\ obs.step = "idea_created"
    /\ obs.origin = "confirm_save"
    /\ Len(ideas) = 2
    /\ ideas[1].transcript = ideas[2].transcript
    /\ BagCardinality(handlers) = 2
    /\ \A h \in BagToSet(handlers) : h \in SavesInserted(obs.user)


(***************************************************************************)
(* Claims about listings (checked under SpecDisplay).                      *)
(***************************************************************************)
\* edited ?? original
Preferred(edited, original) == IF edited.set THEN edited.v ELSE original

\* C28: each entry of a rendered page of the browser shows the edited transcript
\* and the edited category of its idea when the idea has them, and the original
\* ones otherwise.
C28_DisplayPrefersEdited ==
    [][obs'.step = "browse_shown" =>
          \E h \in BagToSet(handlers) :
              /\ h.pc = "browse_stats" /\ h.user = obs'.user /\ handlers' = handlers (-) SetToBag({h})
              /\ Len(obs'.lines) = Len(h.page)
              /\ \A i \in 1..Len(h.page) :
                    /\ obs'.lines[i].category = Preferred(h.page[i].category_edited, h.page[i].category)
                    /\ obs'.lines[i].transcript = Preferred(h.page[i].transcript_edited, h.page[i].transcript)]_vars


(***************************************************************************)
(* Claims about the categorization of saved ideas (checked under           *)
(* SpecCurate).                                                            *)
(***************************************************************************)
\* The handlers that wait for the insert of their idea.
AtInsert(b) == {h \in BagToSet(b) : h.pc = "save_insert"}

CurateOrigins == {"edit", "star", "unstar", "archive", "setcat"}

\* C29: categorize is called by saveIdea only, once for each createIdea: a handler
\* comes to wait for its insert only by the step that calls categorize, and an
\* idea is inserted only by a handler that waits so, with the category,
\* confidence and tags of that call.  The edit of a transcript, star, archive
\* and the choice of a category call no provider, and no step changes the
\* category, confidence or tags of an idea that exists.
C29_CategorizedOnce ==
    [][/\ ("categorize" \in obs'.calls) <=> (obs'.step \in {"categorized", "categorized_blind", "categorize_failed"})
       /\ ("categorize" \in obs'.calls) => Ended(obs'.user, "save_cats") \/ Moved(obs'.user, "save_cats", "save_insert")
       /\ (AtInsert(handlers') \ AtInsert(handlers) # {}) => "categorize" \in obs'.calls
       /\ Len(ideas') # Len(ideas) =>
             \E h \in AtInsert(handlers) :
                 /\ handlers' = (handlers (-) SetToBag({h})) (+) SetToBag({[h EXCEPT !.pc = "save_count", !.text = <<>>, !.inputType = ""]})
                 /\ OneIdeaCreated(h.user, h.inputType, h.text, h.categorization)
       /\ (obs'.origin \in CurateOrigins \/ obs'.step \in TextEditSteps) => obs'.calls \cap {"categorize", "transcribe", "createIdea"} = {}
       /\ Len(ideas') >= Len(ideas)
       /\ \A i \in 1..Len(ideas) :
             /\ ideas'[i].category = ideas[i].category
             /\ ideas'[i].confidence_score = ideas[i].confidence_score
             /\ ideas'[i].tags = ideas[i].tags]_vars

\* The first idea has been edited, starred, recategorized and archived: its
\* category, confidence and tags are those of its categorization.
C29_Witness ==
    /\ Len(ideas) >= 1
    /\ ideas[1].transcript_edited.set
    /\ ideas[1].is_starred
    /\ ideas[1].is_archived
    /\ ideas[1].category_edited = [set |-> TRUE, v |-> "Health"]
    /\ ideas[1].category = ResultBusiness.category
    /\ ideas[1].confidence_score = ResultBusiness.confidence
    /\ ideas[1].tags = ResultBusiness.tags


(***************************************************************************)
(* Claims about the state table (checked under SpecRouting).               *)
(***************************************************************************)
\* A conversation state none of whose fields is set.
Fresh ==
    [pendingEdit |-> [set |-> FALSE, ideaId |-> ""], pendingSearch |-> FALSE, paused |-> FALSE, confirmMode |-> FALSE,
     pendingIdea |-> [set |-> FALSE, text |-> <<>>, inputType |-> ""], browseOffset |-> 0]

\* The arrivals whose handler looks the state up.
StateLookups == (MessageArrivals \ {"text_ignored"}) \cup {"callback", "command_pause", "command_resume", "command_search"}

FetchSteps == {"fetch_done", "search_done"}

\* The record of the table that has the identifier of a returned row.
RowOf(table, id) == CHOOSE r \in {table[i] : i \in 1..Len(table)} : r.id = id

C32_EditNewHasDraft ==
    /\ \A u \in DOMAIN userStates : userStates[u].pendingEdit = PendingEdit("new") => userStates[u].pendingIdea.set
    /\ \A h \in BagToSet(handlers) : h.pc = "te_update" => h.ideaId # "new"


\* C33: a completing Save clears only the draft it has persisted: when a later
\* capture has replaced the draft while the Save was awaiting, the draft of
\* that capture is still pending after the Save completes.
\* (Checked with captures, Save and Discard only: a pending draft whose text no
\* saved idea has is not the draft the completing Save has persisted.)
C33_SaveClearsOwnDraft ==
    [][\A u \in Users :
          LET st == StateIn(userStates, u)
          IN  (/\ obs'.user = u /\ obs'.step = "save_done"
               /\ st.pendingIdea.set
               /\ \A i \in 1..Len(ideas) : ideas[i].transcript # st.pendingIdea.text) =>
                  DraftKept(u)]_vars


(***************************************************************************)
(* One user's events and the other user's state (checked under SpecPair).  *)
(***************************************************************************)
\* C34: a step of a handler of user A (a command, a text or voice message, a
\* button press, or the continuation of one of them after an await) leaves the
\* conversation state of every other user B as it is, whatever handlers of B
\* are suspended meanwhile.
C34_OtherUserUntouched ==
    [][\A a \in Chatters, b \in Chatters :
          (a # b /\ obs'.user = a) =>
              /\ (b \in DOMAIN userStates') = (b \in DOMAIN userStates)
              /\ StateIn(userStates', b) = StateIn(userStates, b)]_vars

\* The first user's draft is stored while a handler of the second user, who is
\* paused and has a draft and a search pending, is suspended.
C34_Witness ==
    /\ obs.user = "u1" /\ obs.step = "draft_stored"
    /\ "u2" \in DOMAIN userStates
    /\ userStates["u2"].paused /\ userStates["u2"].pendingSearch /\ userStates["u2"].pendingIdea.set
    /\ userStates["u1"] # userStates["u2"]
    /\ \E h \in BagToSet(handlers) : h.user = "u2"


(***************************************************************************)
(* Save presses handled one after the other (checked under SpecSerial).    *)
(***************************************************************************)
\* C35: a Save press handled when no draft is pending makes no categorize call
\* and no call that reads or writes ideas or categories, and changes neither
\* the conversation state nor the tables; so Save presses on the one draft of a
\* run, each handled after the one before has returned, create one idea at most.
C35_SaveWithoutDraft ==
    [][\A u \in Users :
          /\ (obs'.user = u /\ obs'.origin = "confirm_save" /\ ~StateIn(userStates, u).pendingIdea.set) =>
                /\ obs'.step \in {"callback", "callback_unhandled", "handler_failed"}
                /\ obs'.step # "callback" => Ended(u, "cb_profile")
                /\ obs'.calls \cap IdeaCalls = {}
                /\ StateKept(u)
                /\ ideas' = ideas /\ categories' = categories
          /\ past'.stored = "one" => Len(ideas') <= 1]_vars

\* The one draft of the run has been saved and a second Save press has been
\* handled: it has found no draft, and the table has the one idea.
C35_Witness ==
    /\ obs.step = "callback_unhandled"
    /\ obs.origin = "confirm_save"
    /\ past.stored = "one"
    /\ Len(ideas) = 1
    /\ ideas[1].transcript = <<"b">>
    /\ handlers = EmptyBag


(***************************************************************************)
(* The one draft of a user (checked under SpecDiscard).                    *)
(***************************************************************************)
\* C36: a user has one draft at most: a capture in confirm mode that finds a
\* draft pending puts its own text and kind in its place, and a Save that
\* reads the draft afterwards passes saveIdea the pending draft, never the
\* replaced one.
C36_OneDraftReplaced ==
    [][\A u \in Users :
          LET st == StateIn(userStates, u)
              carried == PendingIdea(obs'.text, obs'.inputType)
          IN  /\ (obs'.user = u /\ obs'.step = "draft_stored") =>
                    /\ StateIn(userStates', u) = [st EXCEPT !.pendingIdea = carried]
                    /\ st.pendingIdea.set => past'.replaced = st.pendingIdea
              /\ (obs'.user = u /\ obs'.origin = "confirm_save" /\ obs'.step = "save_start") =>
                    /\ carried = st.pendingIdea
                    /\ (past.replaced.set /\ st.pendingIdea # past.replaced) => carried # past.replaced]_vars

\* The draft of a voice note has been replaced by the draft of a text, Save has
\* been pressed and has ended: the table has the text and not the voice note.
C36_Witness ==
    /\ past.replaced = PendingIdea(<<"a">>, "voice")
    /\ obs.step = "save_done"
    /\ Len(ideas) = 1
    /\ ideas[1].transcript = <<"b">>
    /\ ideas[1].original_input_type = "text"
    /\ ~StateIn(userStates, obs.user).pendingIdea.set


(***************************************************************************)
(* Voice messages and pending operations (checked under SpecRouting).      *)
(***************************************************************************)
\* C37: a voice message of a user who is not paused is a capture whatever is
\* pending (a note within the length limit enters the capture path): no step
\* of its handler changes pendingEdit or pendingSearch, updates an idea or
\* runs a search.
C37_VoiceKeepsPending ==
    [][\A u \in Users :
          (obs'.user = u /\ obs'.origin = "voice") =>
              LET st == StateIn(userStates, u)
                  st2 == StateIn(userStates', u)
              IN  /\ st2.pendingEdit = st.pendingEdit
                  /\ st2.pendingSearch = st.pendingSearch
                  /\ obs'.calls \cap {"updateIdea", "searchIdeas"} = {}
                  /\ (obs'.step \in VoiceArrivalSteps /\ ~st.paused /\ ~TooLong(obs'.duration)) =>
                        obs'.step = "voice_capture" /\ Started(u, "v_profile")]_vars

\* A voice note has arrived while an edit and a search were pending: it has
\* entered the capture path and both are still pending.
C37_Witness ==
    /\ obs.step = "voice_capture"
    /\ StateIn(userStates, obs.user).pendingEdit.set
    /\ StateIn(userStates, obs.user).pendingSearch
    /\ \E h \in BagToSet(handlers) : h.user = obs.user /\ h.pc = "v_profile"


(***************************************************************************)
(* An edit and a search pending together (checked under SpecRouting).      *)
(***************************************************************************)
\* C38: a text message that arrives while pendingEdit and pendingSearch are
\* both set is taken as the edit replacement only: no step of its handler runs
\* a search or changes pendingSearch, and the handler ends with pendingEdit
\* cleared; a text message that arrives after that, pendingSearch still set,
\* is taken as the search query.
C38_EditThenSearch ==
    [][\A u \in Users :
          LET st == StateIn(userStates, u)
              st2 == StateIn(userStates', u)
              arrives == obs'.step \in TextArrivals /\ ~IsCommandText(obs'.text)
          IN  (obs'.user = u /\ obs'.origin = "text") =>
                  /\ (arrives /\ st.pendingEdit.set /\ st.pendingSearch) =>
                        obs'.step = "text_edit" /\ Started(u, "te_profile") /\ StateKept(u)
                  /\ obs'.step \in TextEditSteps =>
                        /\ st2.pendingSearch = st.pendingSearch
                        /\ "searchIdeas" \notin obs'.calls
                        /\ (obs'.step \in {"edit_done", "edit_failed"}) => ~st2.pendingEdit.set
                  /\ (arrives /\ ~st.pendingEdit.set /\ st.pendingSearch) =>
                        obs'.step = "text_search" /\ Started(u, "search") /\ ~st2.pendingSearch]_vars

\* A text has been written into a saved idea as its edit while a search was
\* pending: the edit is no longer pending, the search still is, and no other
\* handler is under way.
C38_Witness ==
    /\ obs.step = "edit_done"
    /\ obs.text = <<"a">>
    /\ \E i \in 1..Len(ideas) : ideas[i].transcript_edited = [set |-> TRUE, v |-> <<"a">>]
    /\ ~StateIn(userStates, obs.user).pendingEdit.set
    /\ StateIn(userStates, obs.user).pendingSearch
    /\ handlers = EmptyBag


(***************************************************************************)
(* /start among the states it resets: a user in confirm mode who pauses,   *)
(* arms a search, presses an Edit button, leaves drafts and sends /start.   *)
(***************************************************************************)
StartEditIds == {"i1"}

StartNext ==
    \/ (\E u \in Users : StartCommand(u)) /\ UNCHANGED past
    \/ (\E h \in Suspended, ok \in BOOLEAN, profile \in StartProfiles : StartProfile(h, ok, profile)) /\ UNCHANGED past
    \/ (\E u \in Users, cmd \in Commands : Command(u, cmd)) /\ UNCHANGED past
    \/ (\E u \in Users, id \in StartEditIds : Callback(u, "edit", id)) /\ UNCHANGED past
    \/ (\E h \in Suspended, ok \in BOOLEAN : CallbackProfile(h, ok)) /\ UNCHANGED past
    \/ (\E u \in Users, raw \in CaptureTexts :
            ~StateOf(u).pendingEdit.set /\ ~StateOf(u).pendingSearch /\ TextMessage(u, raw)) /\ UNCHANGED past
    \/ (\E h \in Suspended, ok \in BOOLEAN : TextCaptureProfile(h, ok)) /\ UNCHANGED past

SpecStart == PairInit /\ [][StartNext]_vars

\* C39: when /start completes, pendingEdit is absent and pendingSearch is false
\* while the pending draft is the one there was before; for a returning user
\* paused is false afterwards whatever it was and whatever the profile says.
\* The arrival of /start and a failed profile lookup change no state.
C39_StartResets ==
    [][\A u \in Users :
        (obs'.user = u /\ obs'.origin = "start") =>
            /\ obs'.step \in {"command_start", "start_failed"} => StateOf(u)' = StateOf(u)
            /\ obs'.step \in {"start_menu", "start_onboarding"} =>
                /\ ~StateOf(u)'.pendingEdit.set
                /\ ~StateOf(u)'.pendingSearch
                /\ StateOf(u)'.pendingIdea = StateOf(u).pendingIdea
                /\ obs'.replies = 1
            /\ obs'.step = "start_menu" => ~StateOf(u)'.paused]_vars

\* A returning user whose profile says paused has /start completed with a
\* draft pending: the draft is kept and the user is not paused.
C39_Witness ==
    /\ obs.step = "start_menu"
    /\ obs.payload = <<"returning", "undefined", "true">>
    /\ StateOf(obs.user).pendingIdea.set
    /\ ~StateOf(obs.user).paused
    /\ ~StateOf(obs.user).pendingEdit.set


(***************************************************************************)
(* The ideas of two owners under the buttons and the edit of one user, who  *)
(* names an idea of their own and an idea of the other.                     *)
(***************************************************************************)
OwnerIds == {"i1", "i2"}

OwnerPayloads ==
    UNION {{<<"star", ":", id>>, <<"unstar", ":", id>>, <<"archive", ":", id>>, <<"setcat", ":", id, ":", "Health">>} : id \in OwnerIds}

\* The update that settles in this step named a row of another owner.
RefusedNow ==
    \E h \in Suspended :
        /\ h.pc \in {"ia_update", "te_update"}
        /\ handlers' = handlers (-) SetToBag({h})
        /\ \E i \in 1..Len(ideas) : ideas[i].id = h.ideaId /\ ideas[i].user_id # h.user

RememberRefused == past' = [past EXCEPT !.refused = @ \/ RefusedNow]

OwnerNext ==
    \/ (\E u \in Users, data \in OwnerPayloads : IdeaCallback(u, data)) /\ RememberRefused
    \/ (\E u \in Users, id \in OwnerIds : Callback(u, "edit", id)) /\ RememberRefused
    \/ (\E h \in Suspended, ok \in BOOLEAN : CallbackProfile(h, ok)) /\ RememberRefused
    \/ (\E h \in Suspended, ok \in BOOLEAN : IdeaUpdated(h, ok)) /\ RememberRefused
    \/ (\E u \in Users, raw \in SingleText : StateOf(u).pendingEdit.set /\ TextMessage(u, raw)) /\ RememberRefused
    \/ (\E h \in Suspended, ok \in BOOLEAN : TextEditProfile(h, ok)) /\ RememberRefused
    \/ (\E h \in Suspended, ok \in BOOLEAN : TextEditUpdate(h, ok)) /\ RememberRefused
    \/ (\E h \in Suspended : TextEditDone(h)) /\ RememberRefused

SpecOwner == SharedInit /\ [][OwnerNext]_vars

\* C40: star, unstar, archive, set category and the edit of a text update only
\* rows of the user who acted: a step of user U leaves every row of another
\* owner as it was, and adds and removes no row.
C40_MutationsScoped ==
    [][/\ Len(ideas') = Len(ideas)
       /\ \A i \in 1..Len(ideas) : ideas[i].user_id # obs'.user => ideas'[i] = ideas[i]]_vars

\* An update that named the other owner's idea has settled, and updates of the
\* user's own idea went through: the other owner's row is as it was saved.
C40_Witness ==
    /\ past.refused
    /\ obs.step \in {"handler_failed", "edit_failed"}
    /\ ideas[1].is_starred
    /\ ideas[1].transcript_edited.set
    /\ ideas[2] = SharedIdeas[2]

=============================================================================
